---------------------------- MODULE Spec2Model ----------------------------
(***************************************************************************)
(* ASTRAL: production scheduling for sewing lines.                         *)
(*                                                                         *)
(*   ALNSOperator      src/metaheuristic/ALNS_operator.py   the evaluator  *)
(*   NeighborGenerator src/metaheuristic/neighbor_generator.py             *)
(*   TabuSearchSolver  src/metaheuristic/tabu_search.py     the driver     *)
(*                                                                         *)
(* Numbers.  The program computes in floating point; the model computes    *)
(* the same expressions exactly over the integers:                         *)
(*   - quantities of fabric and garments are integers, so the test         *)
(*     x > 1e-6 of the code is x > 0;                                      *)
(*   - an efficiency is kept as a number of quarters (EffDen = 4);         *)
(*   - a production share actual_p * max_p / total_cap is kept as the      *)
(*     fraction [num, den];                                                *)
(*   - a cost is kept multiplied by CostScale = 2^T (T the number of days  *)
(*     of the horizon), the discount rate being alpha = 1, so that         *)
(*     discount(t) = 1 / 2^t is exact.                                     *)
(* None is -1 (style ids are 0, 1, 2, ...).                                *)
(***************************************************************************)
EXTENDS Integers, Sequences, FiniteSets, TLC

VARIABLES
    inp,              \* the problem data (self.input), fixed during a run
    req,              \* the assignment handed to repair_and_evaluate
    pc,               \* position of the program
    pruning_cutoff,   \* ALNSOperator.pruning_cutoff, in tenths of a scaled cost
    ev,               \* the evaluation in flight: the solution dict and the locals
    sol,              \* the Solution returned by the last evaluation
    par,              \* the arguments of TabuSearchSolver(...)
    solver,           \* the fields of the TabuSearchSolver object
    iter,             \* solve: the loop variable i
    neighbors,        \* solve: the sorted batch, between lines 70 and 78
    sel,              \* solve: the locals of the selection when it has ended
    raised,           \* the exception that ended the run, "" for none
    returned,         \* what solve() returned
    caller            \* what the caller of the evaluator keeps from one call to the next

vars == <<inp, req, pc, pruning_cutoff, ev, sol, par, solver, iter, neighbors, sel, raised,
          returned, caller>>

tabu_vars == <<par, solver, iter, neighbors, sel, raised, returned>>

(***************************************************************************)
(* Bounds of the model.                                                    *)
(***************************************************************************)
NumDays == 2

MaxIter == 3

MaxBatch == 2

(***************************************************************************)
(* Values and helpers.                                                     *)
(***************************************************************************)
None == -1

Inf == 1000000

Min(a, b) == IF a <= b THEN a ELSE b

Max(a, b) == IF a >= b THEN a ELSE b

Range(f) == {f[i] : i \in DOMAIN f}

\* The element of a singleton set.  { F(x) : x \in {e} } evaluates e once,
\* where F(e) would evaluate it at each use of the parameter.
Only(S) == CHOOSE x \in S : TRUE

RECURSIVE Pow2(_)
Pow2(n) == IF n <= 0 THEN 1 ELSE 2 * Pow2(n - 1)

RECURSIVE SumSeq(_)
SumSeq(s) == IF s = <<>> THEN 0 ELSE Head(s) + SumSeq(Tail(s))

(***************************************************************************)
(* The problem data that is the same in every run of the model.            *)
(***************************************************************************)
setL == <<1, 2>>

Lines == Range(setL)

setT == [i \in 1..inp.T |-> i]

Days == Range(setT)

all_style_ids == <<0, 1, 2>>

Styles == Range(all_style_ids)

\* The name of each style.  A name is a string and equals no id; the model
\* writes the names as numbers apart from the ids.
id_to_style == [i \in Styles |-> 100 + i]

StyleNames == Range(id_to_style)

style_to_id == [n \in StyleNames |-> CHOOSE i \in Styles : id_to_style[i] = n]

Cells == Lines \X Days

line_allowed_lists == inp.allowed

line_allowed_sets == [l \in Lines |-> Range(line_allowed_lists[l])]

paramN == [l \in Lines |-> 1]

paramSAM == [s \in Styles |-> 15]

paramExp0 == [l \in Lines |-> 0]

paramLexp == [k \in Lines \X Styles |-> IF k = <<1, 1>> THEN 1 ELSE 0]

Plate == [s \in Styles |-> 2]

Csetup == 3

Rexp == 1

setSsame == {<<0, 1>>}

\* the breakpoints (paramXp, paramFp) in the order of setBP, efficiencies in 1/EffDen
curve == inp.curve

EffDen == 4

max_lookup_day == 20

CostScale == Pow2(inp.T)


(***************************************************************************)
(* The problem data that differs from run to run (the variable inp):       *)
(*   T          the number of days of the horizon (setT = 1..T)            *)
(*   allowed    the styles enabled on each line, as the list built from    *)
(*              cap_map (line_allowed_lists)                               *)
(*   y0         the style in progress on each line at day 0 (paramY0)      *)
(*   I0fabric   initial fabric per style (paramI0fabric)                   *)
(*   F          fabric arrivals per (style, day) (paramF)                  *)
(*   H          working hours per (line, day) (paramH)                     *)
(*   D          demand per (style, day) (paramD)                           *)
(*   I0product  initial finished goods per style (paramI0product)          *)
(*   B0         initial backlog per style (paramB0)                        *)
(*   Tfab, Tprod  fabric and finishing lead times per style                *)
(*   curve      the breakpoints of the learning curve (setBP, paramXp,     *)
(*              paramFp)                                                   *)
(***************************************************************************)
_discount(t) == CostScale \div Pow2(t)

_is_allowed(line, style_id) == style_id \in line_allowed_sets[line]

_get_initial_style_id(line) == inp.y0[line]

calc_eff(exp_days) ==
    LET n == Len(curve)
        seg == {i \in 1..(n - 1) : curve[i][1] <= exp_days /\ exp_days <= curve[i + 1][1]}
    IN  IF exp_days <= curve[1][1] THEN curve[1][2]
        ELSE IF exp_days >= curve[n][1] THEN curve[n][2]
        ELSE IF seg = {} THEN curve[n][2]
        ELSE LET i == CHOOSE j \in seg : \A k \in seg : j <= k
             IN  curve[i][2]
                 + ((curve[i + 1][2] - curve[i][2]) * (exp_days - curve[i][1]))
                   \div (curve[i + 1][1] - curve[i][1])

efficiency_table == [day \in 0..max_lookup_day |-> calc_eff(day)]

get_efficiency(exp_days) ==
    IF exp_days >= max_lookup_day THEN efficiency_table[max_lookup_day]
    ELSE IF exp_days < 0 THEN efficiency_table[0]
    ELSE efficiency_table[exp_days]

line_capacity(l, t) == inp.H[<<l, t>>] * 60 * paramN[l]

(***************************************************************************)
(* A solution dict.  keys is the set of the dict's keys; a field whose key *)
(* is absent holds its default.  The dicts keyed by (.., t) are kept per   *)
(* day: production[t][l] is the entry production[(l, style, t)] of line l  *)
(* (a line has at most one), shipment[t][s] is shipment[(s, t)].           *)
(* fab_before is not a key of the program's dict: fab_before[t][s] records *)
(* inv_fab[s] after the receipts of day t, before that day's production,   *)
(* for the statements about the fabric ledger.                             *)
(***************************************************************************)
NoProduction == [style |-> None, num |-> 0, den |-> 1]

NewSolution(assignment) ==
    [ keys          |-> {"assignment"},
      assignment    |-> assignment,
      production    |-> [t \in Days |-> [l \in Lines |-> NoProduction]],
      shipment      |-> [t \in Days |-> [s \in Styles |-> 0]],
      changes       |-> {},
      experience    |-> [k \in Cells |-> None],
      efficiency    |-> [k \in Cells |-> None],
      final_backlog |-> [n \in StyleNames |-> 0],
      total_setup   |-> 0,
      total_late    |-> 0,
      total_exp     |-> 0,
      total_cost    |-> 0,
      type          |-> "",
      fab_before    |-> [t \in Days |-> [s \in Styles |-> 0]] ]

(***************************************************************************)
(* REPAIR PHASE (lines 152-158).  draw[k] is what random.choice returns    *)
(* for cell k.                                                             *)
(***************************************************************************)
\* line 154: a style given by name is looked up
AsStyleId(x) == IF x \in StyleNames THEN style_to_id[x] ELSE x

NeedsRepair(assignment) ==
    {k \in Cells : AsStyleId(assignment[k]) = None
                      \/ ~_is_allowed(k[1], AsStyleId(assignment[k]))}

RepairDraws(assignment) ==
    {d \in [NeedsRepair(assignment) -> Styles] :
        \A k \in DOMAIN d : d[k] \in line_allowed_sets[k[1]]}

RepairPhase(assignment, draw) ==
    [k \in Cells |-> IF k \in DOMAIN draw THEN draw[k] ELSE assignment[k]]

(***************************************************************************)
(* EVALUATE INITIALIZATION (lines 160-229): the solution dict with its     *)
(* derived fields emptied, and the locals of the simulation.               *)
(***************************************************************************)
EvaluateInit(solution, assignment) ==
    [ s  |-> [solution EXCEPT
                !.keys = @ \cup {"assignment", "production", "shipment", "changes",
                                 "experience", "efficiency"},
                !.assignment = assignment,
                !.production = [t \in Days |-> [l \in Lines |-> NoProduction]],
                !.shipment = [t \in Days |-> [s \in Styles |-> 0]],
                !.changes = {},
                !.experience = [k \in Cells |-> None],
                !.efficiency = [k \in Cells |-> None],
                !.fab_before = [t \in Days |-> [s \in Styles |-> 0]]],
      inv_fab  |-> inp.I0fabric,
      inv_prod |-> inp.I0product,
      backlog  |-> inp.B0,
      setup_cost |-> 0,
      late_cost  |-> 0,
      exp_reward |-> 0,
      line_states |-> [l \in Lines |->
                         [current_style |-> _get_initial_style_id(l),
                          exp |-> paramExp0[l],
                          up_exp |-> 0]],
      daily_prod_history |-> [t \in Days |-> [s \in Styles |-> 0]],
      pot_prod |-> [s \in Styles |-> <<>>],
      ti |-> 1 ]


(***************************************************************************)
(* Fast Fail (lines 234-238).                                              *)
(***************************************************************************)
current_est_cost(e) == e.setup_cost + e.late_cost - e.exp_reward

FastFail(e) == 10 * current_est_cost(e) > pruning_cutoff

(***************************************************************************)
(* 1. Fabric Receipts (lines 242-245).                                     *)
(***************************************************************************)
param_F(s, t) == IF <<s, t>> \in DOMAIN inp.F THEN inp.F[<<s, t>>] ELSE 0

FabricReceipts(e, t) ==
    LET inv == [s \in Styles |-> e.inv_fab[s] + param_F(s, t - inp.Tfab[s])]
    IN  [e EXCEPT !.inv_fab = inv,
                  !.pot_prod = [s \in Styles |-> <<>>],
                  !.s.fab_before[t] = inv]

(***************************************************************************)
(* SMART MATERIAL LOGIC (lines 267-303).  HasFabric is inv_fab > 1e-6.     *)
(* Shuffled(list, first) is one outcome of random.shuffle: the style       *)
(* `first` moved to the front; every first eligible candidate of a         *)
(* shuffle is reached by one of these.                                     *)
(***************************************************************************)
\* fabric left once the lines already decided today have taken what they can
\* make
HasFabricUnclaimed(e, style_id) ==
    e.inv_fab[style_id]
      - SumSeq([i \in 1..Len(e.pot_prod[style_id]) |-> e.pot_prod[style_id][i].max_p]) > 0

HasFabric(e, style_id) == e.inv_fab[style_id] > 0

Shuffled(list, first) ==
    IF first \in Range(list)
    THEN <<first>> \o SelectSeq(list, LAMBDA x : x # first)
    ELSE list

\* allow_wait that never lets a line wait for fabric
allow_wait_never(e, l, t, new_style_id) == FALSE

allow_wait(e, l, t, new_style_id) ==
    /\ t < Len(setT)
    /\ e.s.assignment[<<l, t + 1>>] = new_style_id

FirstCandidate(e, candidates_shuffled, new_style_id) ==
    LET ok == {i \in 1..Len(candidates_shuffled) :
                  /\ candidates_shuffled[i] # new_style_id
                  /\ HasFabric(e, candidates_shuffled[i])}
    IN  IF ok = {} THEN new_style_id
        ELSE candidates_shuffled[CHOOSE i \in ok : \A j \in ok : i <= j]

MaterialLogic(e, l, t, current_style, new_style_id, first) ==
    IF current_style # None /\ current_style # new_style_id
    THEN \* CASE 1: switch A -> B
         IF ~HasFabric(e, new_style_id) THEN current_style ELSE new_style_id
    ELSE IF current_style # None /\ current_style = new_style_id
    THEN \* CASE 2: stay A -> A
         IF ~HasFabric(e, new_style_id) /\ ~allow_wait(e, l, t, new_style_id)
         THEN FirstCandidate(e, Shuffled(line_allowed_lists[l], first), new_style_id)
         ELSE new_style_id
    ELSE new_style_id

(***************************************************************************)
(* 2. Decide Production, one line (lines 250-332).                         *)
(***************************************************************************)
KeepsExperience(s_from, s_to) == <<s_from, s_to>> \in setSsame

\* max_p without the efficiency of the line
max_p_full_speed(l, t, eff, style_id) == line_capacity(l, t) \div paramSAM[style_id]

max_p(l, t, eff, style_id) == (line_capacity(l, t) * eff) \div (EffDen * paramSAM[style_id])

\* a setup charge that is not discounted
setup_charge_undiscounted(t) == Csetup * CostScale

\* line 310
setup_charge(t) == Csetup * _discount(t)

\* a changeover that is recorded only when the line leaves a style
changed_from_a_style(current_style, new_style_id) ==
    current_style # None /\ current_style # new_style_id

\* line 308
changed(current_style, new_style_id) == current_style # new_style_id

DecideLine(e, l, t, first) ==
    LET st == e.line_states[l]
        exp1 == st.exp + st.up_exp
        requested == e.s.assignment[<<l, t>>]
        work_day == inp.H[<<l, t>>] > 0
    IN  IF requested = None
        THEN [e EXCEPT !.line_states[l].exp = exp1, !.line_states[l].up_exp = 0]
        ELSE
          LET new_style_id == MaterialLogic(e, l, t, st.current_style, requested, first)
              change == changed(st.current_style, new_style_id)
              exp2 == IF change /\ ~KeepsExperience(st.current_style, new_style_id)
                      THEN paramLexp[<<l, new_style_id>>]
                      ELSE exp1
              eff == get_efficiency(exp2)
              sam == paramSAM[new_style_id]
          IN  [e EXCEPT
                 !.s.assignment = [k \in Cells |-> IF k = <<l, t>> THEN new_style_id ELSE @[k]],
                 !.s.changes = IF change
                               THEN @ \cup {<<l, st.current_style, new_style_id, t>>}
                               ELSE @,
                 !.setup_cost = IF change THEN @ + setup_charge(t) ELSE @,
                 !.s.experience = [k \in Cells |-> IF k = <<l, t>> THEN exp2 ELSE @[k]],
                 !.s.efficiency = [k \in Cells |-> IF k = <<l, t>> THEN eff ELSE @[k]],
                 !.exp_reward = @ + exp2 * Rexp * CostScale,
                 !.pot_prod[new_style_id] =
                     IF work_day /\ sam > 0
                     THEN Append(@, [line |-> l, max_p |-> max_p(l, t, eff, new_style_id)])
                     ELSE @,
                 !.line_states[l] = [current_style |-> new_style_id,
                                     exp |-> exp2,
                                     up_exp |-> 0]]

RECURSIVE DecideProduction(_, _, _, _)
DecideProduction(e, lines, t, firsts) ==
    IF lines = <<>> THEN e
    ELSE Only({ DecideProduction(e1, Tail(lines), t, firsts) :
                e1 \in { DecideLine(e, Head(lines), t, firsts[Head(lines)]) } })

(***************************************************************************)
(* 3. Realise Production (lines 334-350).                                  *)
(***************************************************************************)
total_cap(items) == SumSeq([i \in 1..Len(items) |-> items[i].max_p])

\* actual_p without the fabric on hand
actual_p_unlimited(cap, inv_fab) == cap

actual_p(cap, inv_fab) == Min(cap, inv_fab)

Share(actual, item, cap) == [num |-> actual * item.max_p, den |-> cap]

GainsExperience(share, item) == 2 * share.num >= item.max_p * share.den

RealiseProduction(e, t) ==
    LET cap == [s \in Styles |-> total_cap(e.pot_prod[s])]
        act == [s \in Styles |-> actual_p(cap[s], e.inv_fab[s])]
        \* the entry of pot_prod that holds line l, if any
        got == [l \in Lines |->
                  LET s == e.line_states[l].current_style
                  IN  IF s = None THEN <<>>
                      ELSE SelectSeq(e.pot_prod[s], LAMBDA i : i.line = l)]
        paid == [l \in Lines |-> got[l] # <<>> /\ cap[e.line_states[l].current_style] > 0]
        share == [l \in Lines |->
                    IF paid[l]
                    THEN LET s == e.line_states[l].current_style
                         IN  Share(act[s], got[l][1], cap[s])
                    ELSE [num |-> 0, den |-> 1]]
    IN  [e EXCEPT
           !.daily_prod_history[t] =
                [s \in Styles |-> IF e.pot_prod[s] # <<>> THEN act[s] ELSE @[s]],
           !.inv_fab = [s \in Styles |->
                IF e.pot_prod[s] # <<>> THEN @[s] - act[s] ELSE @[s]],
           !.s.production[t] = [l \in Lines |->
                IF paid[l]
                THEN [style |-> e.line_states[l].current_style,
                      num |-> share[l].num, den |-> share[l].den]
                ELSE @[l]],
           !.line_states = [l \in Lines |->
                IF paid[l] /\ GainsExperience(share[l], got[l][1])
                THEN [@[l] EXCEPT !.up_exp = 1] ELSE @[l]]]

(***************************************************************************)
(* 4. Shipments & Backlog (lines 352-366).                                 *)
(***************************************************************************)
\* finished without the finishing lead time
finished_same_day(e, s, t) == e.daily_prod_history[t][s]

finished(e, s, t) ==
    LET d == t - inp.Tprod[s]
    IN  IF d \in Days THEN e.daily_prod_history[d][s] ELSE 0

\* a late charge that is paid for the styles with no backlog
late_charge_when_served(backlog, s, t) ==
    IF backlog > 0 THEN 0 ELSE Plate[s] * _discount(t)

\* a late charge that does not grow with the backlog
late_charge_per_style(backlog, s, t) ==
    IF backlog > 0 THEN Plate[s] * _discount(t) ELSE 0

\* lines 365-366
late_charge(backlog, s, t) ==
    IF backlog > 0 THEN backlog * Plate[s] * _discount(t) ELSE 0

\* a shipment of all that is asked for, in stock or not
ship_qty_asked(inv_prod, to_ship) == to_ship

\* line 359
ship_qty(inv_prod, to_ship) == Min(inv_prod, to_ship)

Shipments(e, t) ==
    LET inv1 == [s \in Styles |-> e.inv_prod[s] + finished(e, s, t)]
        to_ship == [s \in Styles |-> e.backlog[s] + inp.D[<<s, t>>]]
        shipped == [s \in Styles |-> ship_qty(inv1[s], to_ship[s])]
        backlog == [s \in Styles |-> to_ship[s] - shipped[s]]
        late == [i \in 1..Len(all_style_ids) |->
                   late_charge(backlog[all_style_ids[i]], all_style_ids[i], t)]
    IN  [e EXCEPT
           !.s.shipment[t] = shipped,
           !.inv_prod = [s \in Styles |-> inv1[s] - shipped[s]],
           !.backlog = backlog,
           !.late_cost = @ + SumSeq(late)]

(***************************************************************************)
(* One iteration of the TIME LOOP (lines 232-366) and FINALIZE (368-382).  *)
(* firsts[l] resolves the shuffle of line l on that day.                   *)
(***************************************************************************)
TimeStep(e, t, firsts) ==
    Only({ [e4 EXCEPT !.ti = t + 1] :
           e4 \in { Shipments(e3, t) :
           e3 \in { RealiseProduction(e2, t) :
           e2 \in { DecideProduction(e1, setL, t, firsts) :
           e1 \in { FabricReceipts(e, t) } } } } })

Pruned(e) == [e.s EXCEPT !.keys = @ \cup {"total_cost"}, !.total_cost = Inf]

Finalize(e) ==
    [e.s EXCEPT
       !.keys = @ \cup {"final_backlog", "total_setup", "total_late", "total_exp",
                        "total_cost"},
       !.final_backlog = [n \in StyleNames |-> e.backlog[style_to_id[n]]],
       !.total_setup = e.setup_cost,
       !.total_late = e.late_cost,
       !.total_exp = e.exp_reward,
       !.total_cost = e.setup_cost + e.late_cost - e.exp_reward]


(***************************************************************************)
(* The random draws of a day.                                              *)
(***************************************************************************)
\* The lines whose decision on day t reaches random.shuffle (line 297), read
\* on the state after the day's receipts; a line that does not shuffle draws
\* nothing (its entry is its first allowed style and is never read).
ReachesShuffle(e, l, t) ==
    LET st == e.line_states[l]
        requested == e.s.assignment[<<l, t>>]
    IN  /\ requested # None
        /\ st.current_style # None
        /\ st.current_style = requested
        /\ ~HasFabric(e, requested)
        /\ ~allow_wait(e, l, t, requested)

ShuffleDraws(e, t) ==
    LET e1 == FabricReceipts(e, t)
        draws == [l \in Lines |-> IF ReachesShuffle(e1, l, t)
                                  THEN line_allowed_sets[l]
                                  ELSE {line_allowed_lists[l][1]}]
    IN  {f \in [Lines -> Styles] : \A l \in Lines : f[l] \in draws[l]}

(***************************************************************************)
(* repair_and_evaluate as a whole (lines 146-382): the set of the          *)
(* Solutions a call can return, one for each resolution of its random      *)
(* draws.                                                                  *)
(***************************************************************************)
RECURSIVE TimeLoop(_)
TimeLoop(e) ==
    IF e.ti > Len(setT) THEN {Finalize(e)}
    ELSE IF FastFail(e) THEN {Pruned(e)}
    ELSE UNION { TimeLoop(e1) : e1 \in { TimeStep(e, e.ti, f) : f \in ShuffleDraws(e, e.ti) } }

repair_and_evaluate(solution) ==
    UNION { TimeLoop(e) :
            e \in { EvaluateInit(solution, RepairPhase(solution.assignment, d)) :
                    d \in RepairDraws(solution.assignment) } }

(***************************************************************************)
(* The runs of the model: problem data and requested assignments.          *)
(***************************************************************************)
DaysOf(T) == 1..T

Supplies == { <<0, 0, 1>>, <<4, 0, 1>>, <<4, 1, 0>> }

Inputs ==
    { [ T         |-> NumDays,
        allowed   |-> [l \in Lines |-> IF l = 1 THEN <<0, 1, 2>> ELSE <<1, 0>>],
        y0        |-> y,
        I0fabric  |-> i0,
        F         |-> [k \in Styles \X DaysOf(NumDays) |-> IF k = <<0, 2>> THEN x[1] ELSE 0],
        Tfab      |-> [s \in Styles |-> x[2]],
        Tprod     |-> [s \in Styles |-> x[2]],
        H         |-> [k \in Lines \X DaysOf(NumDays) |-> IF k = <<1, 2>> THEN x[3] ELSE 1],
        D         |-> [k \in Styles \X DaysOf(NumDays) |->
                         IF k[1] = 0 THEN 2 ELSE IF k = <<1, NumDays>> THEN 3 ELSE 0],
        I0product |-> [s \in Styles |-> IF s = 0 THEN 1 ELSE 0],
        B0        |-> [s \in Styles |-> IF s = 1 THEN 1 ELSE 0],
        curve     |-> << <<0, 2>>, <<2, 4>> >> ] :
      y \in {[l \in Lines |-> IF l = 1 THEN None ELSE 2], [l \in Lines |-> IF l = 1 THEN 0 ELSE 1]},
      i0 \in [Styles -> {0, 3}],
      x \in Supplies }

\* Line 1 is asked for any row, unassigned cells included; line 2 for style 1
\* on every day but the last, and there for a style that may not be enabled.
Requests ==
    { [k \in Lines \X DaysOf(NumDays) |->
          IF k[1] = 1 THEN r1[k[2]] ELSE IF k[2] = NumDays THEN r2 ELSE 1] :
      r1 \in [DaysOf(NumDays) -> Styles \cup {None}], r2 \in {1, 2} }

NoEval == [ti |-> 0]

NoSolution == [keys |-> {}]

NoSolver == [max_iter |-> 0]

NoSelection == [best_neighbor_found |-> FALSE]

NoCaller == [calls |-> 0]

(***************************************************************************)
(* Spec: the evaluator called on a requested assignment.                   *)
(***************************************************************************)
Init ==
    /\ inp \in Inputs
    /\ req \in Requests
    /\ pc = "idle"
    /\ pruning_cutoff = Inf
    /\ ev = NoEval
    /\ sol = NoSolution
    /\ par = NoSolver
    /\ solver = NoSolver
    /\ iter = 0
    /\ neighbors = <<>>
    /\ sel = NoSelection
    /\ raised = ""
    /\ returned = NoSolution
    /\ caller = NoCaller

\* repair_and_evaluate, up to the time loop (lines 146-229)
Call ==
    /\ pc = "idle"
    /\ \E draw \in RepairDraws(req) :
          ev' = EvaluateInit(NewSolution(req), RepairPhase(req, draw))
    /\ pc' = "loop"
    /\ UNCHANGED <<caller, inp, req, pruning_cutoff, sol>>
    /\ UNCHANGED tabu_vars

\* one day of the time loop (lines 232-366)
Day ==
    /\ pc = "loop"
    /\ ev.ti <= Len(setT)
    /\ ~FastFail(ev)
    /\ \E firsts \in ShuffleDraws(ev, ev.ti) : ev' = TimeStep(ev, ev.ti, firsts)
    /\ UNCHANGED <<caller, inp, req, pc, pruning_cutoff, sol>>
    /\ UNCHANGED tabu_vars

\* FINALIZE and return (lines 368-382)
Return ==
    /\ pc = "loop"
    /\ ev.ti > Len(setT)
    /\ sol' = Finalize(ev)
    /\ ev' = NoEval
    /\ pc' = "done"
    /\ UNCHANGED <<caller, inp, req, pruning_cutoff>>
    /\ UNCHANGED tabu_vars

Next ==
    \/ Call
    \/ Day
    \/ Return

Spec == Init /\ [][Next]_vars

(***************************************************************************)
(* Reading the ledgers of a Solution.  A quantity of garments is a         *)
(* fraction [num, den].                                                    *)
(***************************************************************************)
FracAdd(a, b) == [num |-> a.num * b.den + b.num * a.den, den |-> a.den * b.den]

RECURSIVE FracSum(_)
FracSum(q) == IF q = <<>> THEN [num |-> 0, den |-> 1] ELSE FracAdd(Head(q), FracSum(Tail(q)))

FracLeqInt(a, n) == a.num <= n * a.den

IntLeqFrac(n, a) == n * a.den <= a.num

FracEqInt(a, n) == a.num = n * a.den

\* what line l produced of style s on day t
ProducedBy(solution, l, s, t) ==
    LET p == solution.production[t][l]
    IN  IF p.style = s THEN [num |-> p.num, den |-> p.den] ELSE [num |-> 0, den |-> 1]

\* what all lines produced of style s on day t
Produced(solution, s, t) ==
    FracSum([i \in 1..Len(setL) |-> ProducedBy(solution, setL[i], s, t)])

\* what all lines produced of style s on the days 1..t
ProducedUpTo(solution, s, t) ==
    FracSum([d \in 1..Max(t, 0) |-> Produced(solution, s, d)])

ShippedUpTo(solution, s, t) == SumSeq([d \in 1..t |-> solution.shipment[d][s]])

ReceivedUpTo(s, t) == SumSeq([d \in 1..t |-> param_F(s, d - inp.Tfab[s])])

\* the solution dict of the evaluation in flight or just returned, and the
\* days it has simulated
Simulated == IF pc = "loop" THEN ev.s ELSE sol

SimulatedDays ==
    IF pc = "loop" THEN 1..(ev.ti - 1) ELSE IF pc = "done" THEN Days ELSE {}

LinesMaking(solution, s, t) == {l \in Lines : solution.assignment[<<l, t>>] = s}

\* max_p of line l on day t, from the efficiency the Solution records
RecordedMaxP(solution, l, t) ==
    max_p(l, t, solution.efficiency[<<l, t>>], solution.assignment[<<l, t>>])

SummedMaxP(solution, s, t) ==
    SumSeq([i \in 1..Len(setL) |->
              IF setL[i] \in LinesMaking(solution, s, t)
              THEN RecordedMaxP(solution, setL[i], t) ELSE 0])

(***************************************************************************)
(* C1.  Every slot of the Solution repair_and_evaluate returns holds a     *)
(* style enabled on its line, whatever the request and whatever style the  *)
(* line starts the horizon on.  The code breaks it: CASE 1 (lines 268-272) *)
(* writes the line's current style into the slot, and on the first day     *)
(* that is y0[l], enabled on the line or not.                              *)
(***************************************************************************)
C1_EverySlotCapable ==
    pc = "done" => \A k \in Cells : _is_allowed(k[1], sol.assignment[k])

(***************************************************************************)
(* C2.  On every simulated day and for every style, the production summed  *)
(* over the lines is at most the fabric on hand before production, which   *)
(* is what was carried over plus the day's receipts; the inventory is      *)
(* never negative; over the horizon the production of a style is at most   *)
(* its initial fabric plus all its receipts.                               *)
(***************************************************************************)
C2_FabricLedger ==
    /\ \A t \in SimulatedDays : \A s \in Styles :
          /\ FracLeqInt(Produced(Simulated, s, t), Simulated.fab_before[t][s])
          /\ FracEqInt(ProducedUpTo(Simulated, s, t - 1),
                       inp.I0fabric[s] + ReceivedUpTo(s, t) - Simulated.fab_before[t][s])
          /\ FracLeqInt(ProducedUpTo(Simulated, s, t), inp.I0fabric[s] + ReceivedUpTo(s, t))
    /\ pc = "loop" => \A s \in Styles : ev.inv_fab[s] >= 0

\* two lines have shared all the fabric a style had
C2_Witness ==
    /\ pc = "done"
    /\ \E t \in Days : \E s \in Styles :
          /\ \A l \in Lines : sol.production[t][l].style = s /\ sol.production[t][l].num > 0
          /\ FracEqInt(Produced(sol, s, t), sol.fab_before[t][s])

(***************************************************************************)
(* C3.  What a line produces on a day, times the SAM of the style, is at   *)
(* most hours * 60 * sewers * efficiency (the production is at most        *)
(* max_p).  Every line making style s on day t produces its max_p exactly  *)
(* when the fabric on hand for s is at least their summed max_p; otherwise *)
(* a line produces inventory * max_p / summed max_p.  A line with zero     *)
(* working hours produces nothing.                                         *)
(***************************************************************************)
C3_CapacityAndShares ==
    pc = "done" =>
      \A t \in Days :
        /\ \A l \in Lines :
             LET p == sol.production[t][l]
                 a == sol.assignment[<<l, t>>]
             IN  /\ p.style \in {None, a}
                 /\ p.num * paramSAM[a] * EffDen
                      <= p.den * inp.H[<<l, t>>] * 60 * paramN[l] * sol.efficiency[<<l, t>>]
                 /\ FracLeqInt(ProducedBy(sol, l, a, t), RecordedMaxP(sol, l, t))
                 /\ inp.H[<<l, t>>] = 0 => p.num = 0
        /\ \A s \in Styles :
             LET inv == sol.fab_before[t][s]
                 cap == SummedMaxP(sol, s, t)
                 making == LinesMaking(sol, s, t)
             IN  /\ (\A l \in making : FracEqInt(ProducedBy(sol, l, s, t), RecordedMaxP(sol, l, t)))
                       <=> inv >= cap
                 /\ inv < cap =>
                       \A l \in making :
                          LET p == ProducedBy(sol, l, s, t)
                          IN  p.num * cap = inv * RecordedMaxP(sol, l, t) * p.den

\* on one day two lines share a style short of fabric, on another a line
\* produces its max_p; a line has a day without hours
C3_Witness ==
    /\ pc = "done"
    /\ \E t \in Days : \E s \in Styles :
          /\ LinesMaking(sol, s, t) = Lines
          /\ 0 < sol.fab_before[t][s]
          /\ sol.fab_before[t][s] < SummedMaxP(sol, s, t)
    /\ \E t \in Days : \E l \in Lines :
          /\ sol.production[t][l].num > 0
          /\ FracEqInt(ProducedBy(sol, l, sol.assignment[<<l, t>>], t), RecordedMaxP(sol, l, t))

(***************************************************************************)
(* C4.  For every style and day t, the shipments up to t are at most the   *)
(* initial finished goods plus the production up to t minus the finishing  *)
(* lead time of the style.                                                 *)
(***************************************************************************)
C4_ShipWhatIsFinished ==
    \A t \in SimulatedDays : \A s \in Styles :
       IntLeqFrac(ShippedUpTo(Simulated, s, t) - inp.I0product[s],
                  ProducedUpTo(Simulated, s, t - inp.Tprod[s]))

\* with a lead time of one day, all that was made on day 1 is shipped on day 2
C4_Witness ==
    /\ pc = "done"
    /\ \E s \in Styles :
          /\ inp.Tprod[s] = 1
          /\ Produced(sol, s, 1).num > 0
          /\ FracEqInt(Produced(sol, s, 1), ShippedUpTo(sol, s, 2) - inp.I0product[s])

(***************************************************************************)
(* C5.  Evaluating the same requested assignment on the same data returns  *)
(* the same Solution whatever the random draws: every call returns what    *)
(* this call returned.  The code breaks it: the repair draws a style with  *)
(* random.choice and the forced switch tries the candidates in the order   *)
(* of random.shuffle.                                                      *)
(***************************************************************************)
C5_OneResult ==
    pc = "done" => repair_and_evaluate(NewSolution(req)) = {sol}

(***************************************************************************)
(* ALNSOperator.initialize_solution (lines 123-144): every line is given,  *)
(* on all days, the enabled style of largest total demand, the first such  *)
(* in the order of line_allowed_lists (max over a dict), and the result is *)
(* evaluated.                                                              *)
(***************************************************************************)
total_demand(s_id) == SumSeq([j \in 1..Len(setT) |-> inp.D[<<s_id, setT[j]>>]])

\* max(demands, key=demands.get): the first of the largest, in the order of
\* the keys, which is the order of allowed_ids
first_largest(allowed_ids) ==
    LET largest == {j \in 1..Len(allowed_ids) :
                       \A m \in 1..Len(allowed_ids) :
                          total_demand(allowed_ids[j]) >= total_demand(allowed_ids[m])}
    IN  allowed_ids[CHOOSE j \in largest : \A m \in largest : j <= m]

initial_style_id(l) == first_largest(line_allowed_lists[l])

initial_assignment == [k \in Cells |-> initial_style_id(k[1])]

initialize_solution == repair_and_evaluate(NewSolution(initial_assignment))

(***************************************************************************)
(* NeighborGenerator (neighbor_generator.py).  A move is the assignment    *)
(* the generator hands to repair_and_evaluate.                             *)
(***************************************************************************)
generate_neighbors_params == <<"base_solution", "mo_probability", "evaluator">>

\* the arguments of the call in solve (tabu_search.py lines 62-65)
solve_call_args == <<"self.current_solution", "self.evaluator">>

num_neighbors == Max(Len(setL) * 2, 10)

Swapped(assign, l, t1, t2) ==
    [k \in Cells |-> IF k = <<l, t1>> THEN assign[<<l, t2>>]
                     ELSE IF k = <<l, t2>> THEN assign[<<l, t1>>]
                     ELSE assign[k]]

Overwritten(assign, l, periods, style_id) ==
    [k \in Cells |-> IF k[1] = l /\ k[2] \in periods THEN style_id ELSE assign[k]]

\* 'swap' (lines 57-61) and the swap of _gen_balanced (lines 165-173)
SwapMoves(assign) ==
    IF Len(setT) >= 2
    THEN { Swapped(assign, c[1], c[2], c[3]) :
           c \in { d \in Lines \X Days \X Days :
                      d[2] # d[3] /\ assign[<<d[1], d[2]>>] # assign[<<d[1], d[3]>>] } }
    ELSE {}

\* 'reassign_block' (lines 63-75)
BlockMoves(assign) ==
    IF Len(setT) > 5
    THEN { Overwritten(assign, c[1], {setT[j] : j \in (c[3] + 1)..(c[3] + c[2])}, c[4]) :
           c \in { d \in Lines \X (2..Max(2, Len(setT) \div 4)) \X (0..Len(setT)) \X Styles :
                      /\ d[3] <= Len(setT) - d[2]
                      /\ d[4] \in line_allowed_sets[d[1]]
                      /\ \E j \in (d[3] + 1)..(d[3] + d[2]) :
                            assign[<<d[1], setT[j]>>] # d[4] } }
    ELSE {}

\* 'reassign_single', the else branch (lines 77-83)
SingleMoves(assign) ==
    { Overwritten(assign, c[1], {c[2]}, c[3]) :
      c \in { d \in Lines \X Days \X Styles :
                 d[3] \in line_allowed_sets[d[1]] /\ d[3] # assign[<<d[1], d[2]>>] } }

\* the new_assign of an attempt of _generate_traditional_neighbors that has
\* changed = True
TraditionalMoves(assign) == SwapMoves(assign) \cup BlockMoves(assign) \cup SingleMoves(assign)

\* _find_short_segments (lines 177-192): the runs of one style on a line, of
\* at most 3 days; a run is [style, periods], periods the set of its days
_find_short_segments(line, assignment) ==
    LET starts == {t \in Days : t = 1 \/ assignment[<<line, t>>] # assignment[<<line, t - 1>>]}
        run(t) == {u \in Days : u >= t /\ \A v \in t..u :
                                             assignment[<<line, v>>] = assignment[<<line, t>>]}
    IN  { r \in { [style |-> assignment[<<line, t>>], periods |-> run(t)] : t \in starts } :
          Cardinality(r.periods) <= 3 }

\* _get_dominant_neighbor_style (lines 194-206)
_get_dominant_neighbor_style(line, segment, assignment) ==
    LET start_t == CHOOSE t \in segment.periods : \A u \in segment.periods : t <= u
        end_t == CHOOSE t \in segment.periods : \A u \in segment.periods : t >= u
        prev == IF start_t > 1 THEN assignment[<<line, start_t - 1>>] ELSE None
        nxt == IF end_t < Len(setT) THEN assignment[<<line, end_t + 1>>] ELSE None
    IN  IF prev # None /\ prev = nxt THEN prev
        ELSE IF prev # None THEN prev ELSE nxt

\* the sequences of k different members of S: random.sample(S, k)
RECURSIVE Samples(_, _)
Samples(S, k) ==
    IF k = 0 THEN {<<>>}
    ELSE UNION { { <<x>> \o q : q \in Samples(S \ {x}, k - 1) } : x \in S }

\* _gen_setup_reduction (lines 112-133): the lists of moves it can build from
\* the line at the head of `lines` on, `attempts` moves being built already
RECURSIVE _gen_setup_reduction(_, _, _)
_gen_setup_reduction(assign, lines, attempts) ==
    IF lines = <<>> THEN {<<>>}
    ELSE
      LET l == Head(lines)
          segments == _find_short_segments(l, assign)
          dominant(seg) == _get_dominant_neighbor_style(l, seg, assign)
          joins(seg) == dominant(seg) # None /\ _is_allowed(l, dominant(seg))
          movesOf(q) == [j \in 1..Len(q) |-> Overwritten(assign, l, q[j].periods, dominant(q[j]))]
      IN  IF segments = {} THEN _gen_setup_reduction(assign, Tail(lines), attempts)
          ELSE UNION {
                 LET built == movesOf(SelectSeq(q, joins))
                 IN  IF attempts + Len(built) >= 5 THEN {built}
                     ELSE { built \o rest :
                            rest \in _gen_setup_reduction(assign, Tail(lines),
                                                          attempts + Len(built)) } :
                 q \in Samples(segments, Min(Cardinality(segments), 2)) }

\* _identify_high_risk_styles (lines 208-214): the keys of final_backlog, the
\* names of the styles, that have a backlog
_identify_high_risk_styles(solution) ==
    IF "final_backlog" \in solution.keys
    THEN {n \in DOMAIN solution.final_backlog : solution.final_backlog[n] > 0}
    ELSE {}

\* _gen_late_reduction (lines 135-158): the slots a style in backlog can be
\* put in.  s_id is a key of final_backlog.
valid_slots(assign, s_id) ==
    {k \in Cells : _is_allowed(k[1], s_id) /\ assign[k] # s_id}

LateMoves(solution) ==
    { Overwritten(solution.assignment, c[2][1], {c[2][2]}, c[1]) :
      c \in { d \in _identify_high_risk_styles(solution) \X Cells :
                 d[2] \in valid_slots(solution.assignment, d[1]) } }

\* the evaluated neighbours of a set of moves
Evaluated(moves) == UNION { repair_and_evaluate(NewSolution(a)) : a \in moves }

\* lines 107-108
Tagged(n) == [n EXCEPT !.keys = @ \cup {"type"}, !.type = "mo_move"]

\* the subsets of S of at most k members
RECURSIVE UpTo(_, _)
UpTo(S, k) ==
    IF k <= 0 THEN {{}}
    ELSE LET smaller == UpTo(S, k - 1)
         IN  smaller \cup UNION { { b \cup {x} : x \in S } : b \in smaller }

\* all the sequences that list the members of S once
RECURSIVE Orders(_)
Orders(S) ==
    IF S = {} THEN {<<>>}
    ELSE UNION { { <<x>> \o q : q \in Orders(S \ {x}) } : x \in S }

\* the lists one evaluation of each move of the list `moves` can give
RECURSIVE EvaluatedList(_)
EvaluatedList(moves) ==
    IF moves = <<>> THEN {<<>>}
    ELSE UNION { { <<n>> \o q : q \in EvaluatedList(Tail(moves)) } :
                 n \in repair_and_evaluate(NewSolution(Head(moves))) }

\* an attempt of _generate_traditional_neighbors can leave changed = False:
\* a swap of two days with one style, or a reassign_single that draws the
\* style the cell holds
CanStayUnchanged(assign) ==
    \/ \E k \in Cells : _is_allowed(k[1], assign[k])
    \/ \E l \in Lines : \E t1, t2 \in Days : t1 # t2 /\ assign[<<l, t1>>] = assign[<<l, t2>>]

\* _generate_traditional_neighbors (lines 43-89): the lists of at most
\* `room` neighbours it can return.  It returns num_neighbors of them when
\* no attempt can stay unchanged.
_generate_traditional_neighbors(base_solution, room) ==
    LET lists == UNION { Orders(b) :
                         b \in UpTo(Evaluated(TraditionalMoves(base_solution.assignment)),
                                    Min(num_neighbors, room)) }
    IN  IF CanStayUnchanged(base_solution.assignment) THEN lists
        ELSE {q \in lists : Len(q) = num_neighbors}

\* _generate_multi_objective_neighbors (lines 94-110): the lists of at most
\* `room` neighbours it can return
_generate_multi_objective_neighbors(base_solution, room) ==
    LET setup == UNION { EvaluatedList(m) :
                         m \in _gen_setup_reduction(base_solution.assignment, setL, 0) }
        late == UNION { Orders(b) :
                        b \in UpTo(Evaluated(LateMoves(base_solution)), Min(9, room)) }
        balanced == UNION { Orders(b) :
                            b \in UpTo(Evaluated(SwapMoves(base_solution.assignment)),
                                       Min(5, room)) }
        lists == { c[1] \o c[2] \o c[3] : c \in setup \X late \X balanced }
    IN  { [j \in 1..Len(q) |-> Tagged(q[j])] : q \in { r \in lists : Len(r) <= room } }

\* generate_neighbors (lines 16-38): the lists of at most MaxBatch neighbours
\* it can return, without and with the multi-objective neighbours (line 34,
\* random.random() < mo_probability)
generate_neighbors(base_solution) ==
    LET traditional == _generate_traditional_neighbors(base_solution, MaxBatch)
        mo_neighbors == _generate_multi_objective_neighbors(base_solution, MaxBatch)
    IN  traditional
        \cup { c[1] \o c[2] :
               c \in { d \in traditional \X mo_neighbors : Len(d[1]) + Len(d[2]) <= MaxBatch } }

(***************************************************************************)
(* TabuSearchSolver (tabu_search.py).                                      *)
(***************************************************************************)
\* the cells in the order sorted() gives the triples of a signature
CellsInOrder ==
    [j \in 1..(Len(setL) * Len(setT)) |->
        <<setL[((j - 1) \div Len(setT)) + 1], setT[((j - 1) % Len(setT)) + 1]>>]

\* lines 135-139
_get_move_signature(old_assign, new_assign) ==
    SelectSeq([j \in DOMAIN CellsInOrder |->
                  <<CellsInOrder[j], old_assign[CellsInOrder[j]], new_assign[CellsInOrder[j]]>>],
              LAMBDA x : x[2] # x[3])

\* is_best_ever with no neighbour ever better than the best
is_best_ever_never(neighbor, best_cost) == FALSE

\* is_best_ever with every neighbour taken for a new best
is_best_ever_always(neighbor, best_cost) == TRUE

\* line 80
is_best_ever(neighbor, best_cost) == neighbor.total_cost < best_cost

\* is_not_tabu that does not look at the queue
is_not_tabu_always(move, tabu_list) == TRUE

\* line 81
is_not_tabu(move, tabu_list) == move \notin Range(tabu_list)

\* deque.append on a deque of the given maxlen (line 89)
deque_append(q, maxlen, x) ==
    IF maxlen = 0 THEN q
    ELSE IF Len(q) >= maxlen THEN Tail(q) \o <<x>>
    ELSE Append(q, x)

\* deque(q, maxlen = n): the last n members of q (line 143)
deque_last(q, n) == IF Len(q) <= n THEN q ELSE SubSeq(q, Len(q) - n + 1, Len(q))

\* lines 141-143
_update_tabu_list_capacity(s) ==
    IF s.maxlen # s.current_tenure
    THEN [s EXCEPT !.tabu_list = deque_last(@, s.current_tenure), !.maxlen = s.current_tenure]
    ELSE s

\* lines 145-161
_update_tenure(s, improvement_this_iteration) ==
    IF improvement_this_iteration
    THEN LET s1 == [s EXCEPT !.consecutive_improvements_counter = @ + 1,
                             !.no_improvement_counter = 0]
         IN  IF s1.consecutive_improvements_counter >= s1.decrease_threshold
             THEN LET s2 == IF s1.current_tenure > s1.min_tenure
                            THEN _update_tabu_list_capacity(
                                   [s1 EXCEPT !.current_tenure = Max(s1.min_tenure, @ - 1)])
                            ELSE s1
                  IN  [s2 EXCEPT !.consecutive_improvements_counter = 0]
             ELSE s1
    ELSE LET s1 == [s EXCEPT !.no_improvement_counter = @ + 1,
                             !.consecutive_improvements_counter = 0]
         IN  IF s1.no_improvement_counter >= s1.increase_threshold
             THEN LET s2 == IF s1.current_tenure < s1.max_tenure
                            THEN _update_tabu_list_capacity(
                                   [s1 EXCEPT !.current_tenure = Min(s1.max_tenure, @ + 2)])
                            ELSE s1
                  IN  [s2 EXCEPT !.no_improvement_counter = 0]
             ELSE s1

\* neighbors.sort(key = total_cost) (line 70): a stable sort
RECURSIVE InsertByCost(_, _)
InsertByCost(sorted, n) ==
    IF sorted = <<>> THEN <<n>>
    ELSE IF Head(sorted).total_cost <= n.total_cost
         THEN <<Head(sorted)>> \o InsertByCost(Tail(sorted), n)
         ELSE <<n>> \o sorted

RECURSIVE SortedByCost(_)
SortedByCost(q) ==
    IF q = <<>> THEN <<>>
    ELSE InsertByCost(SortedByCost(SubSeq(q, 1, Len(q) - 1)), q[Len(q)])

\* neighbor.get('origin_operator') (lines 88, 106)
origin_operator(neighbor) ==
    IF "origin_operator" \in neighbor.keys THEN neighbor.origin_operator ELSE None

\* the loop of lines 78-98: the position of the neighbour it stops at, 0 when
\* it runs to the end
FirstAccepted(s, batch) ==
    LET ok == {j \in 1..Len(batch) :
                  \/ is_best_ever(batch[j], s.best_cost)
                  \/ is_not_tabu(_get_move_signature(s.current_solution.assignment,
                                                     batch[j].assignment),
                                 s.tabu_list)}
    IN  IF ok = {} THEN 0 ELSE CHOOSE j \in ok : \A m \in ok : j <= m

\* the locals of the selection when it has ended at position j (0: fallback)
SelectionLocals(s, batch, j) ==
    IF j = 0
    THEN [best_neighbor_found |-> FALSE, position |-> 1, is_best_ever |-> FALSE,
          is_not_tabu |-> FALSE, chosen_op |-> origin_operator(batch[1]),
          improvement_this_iteration |-> FALSE]
    ELSE [best_neighbor_found |-> TRUE, position |-> j,
          is_best_ever |-> is_best_ever(batch[j], s.best_cost),
          is_not_tabu |-> is_not_tabu(_get_move_signature(s.current_solution.assignment,
                                                          batch[j].assignment),
                                      s.tabu_list),
          chosen_op |-> origin_operator(batch[j]),
          improvement_this_iteration |-> is_best_ever(batch[j], s.best_cost)]

\* 2. Select Best Move (lines 69-108), on the sorted batch
SelectBestMove(s, batch) ==
    LET j == FirstAccepted(s, batch)
        s1 == IF j > 0
              THEN LET neighbor == batch[j]
                       move == _get_move_signature(s.current_solution.assignment,
                                                   neighbor.assignment)
                       best == is_best_ever(neighbor, s.best_cost)
                   IN  [s EXCEPT
                          !.current_solution = neighbor,
                          !.tabu_list = deque_append(@, s.maxlen, move),
                          !.best_solution = IF best THEN neighbor ELSE @,
                          !.best_cost = IF best THEN neighbor.total_cost ELSE @]
              ELSE [s EXCEPT !.current_solution = batch[1]]
    IN  [s1 EXCEPT !.costs = Append(@, s1.current_solution.total_cost)]

\* the fields of the object after __init__ (lines 12-48)
NewSolver(args, s0) ==
    [ max_iter |-> args.max_iter,
      current_tenure |-> args.tabu_tenure,
      min_tenure |-> args.min_tenure,
      max_tenure |-> args.max_tenure,
      increase_threshold |-> args.increase_threshold,
      decrease_threshold |-> args.decrease_threshold,
      no_improvement_counter |-> 0,
      consecutive_improvements_counter |-> 0,
      current_solution |-> s0,
      best_solution |-> s0,
      best_cost |-> s0.total_cost,
      tabu_list |-> <<>>,
      maxlen |-> args.tabu_tenure,
      costs |-> <<s0.total_cost>> ]

(***************************************************************************)
(* The steps of TabuSearchSolver(...).solve().                             *)
(***************************************************************************)
\* __init__ (lines 8-48)
Construct ==
    /\ pc = "new"
    /\ IF \E l \in Lines : line_allowed_lists[l] = <<>>
       THEN /\ raised' = "ValueError"
            /\ pc' = "raised"
            /\ UNCHANGED <<solver, req>>
       ELSE /\ \E s0 \in initialize_solution : solver' = NewSolver(par, s0)
            /\ req' = initial_assignment
            /\ pc' = "solve"
            /\ UNCHANGED raised
    /\ UNCHANGED <<caller, inp, pruning_cutoff, ev, sol, par, iter, neighbors, sel, returned>>

\* the loop ends: range(max_iter) is used up (line 55)
LoopExit ==
    /\ pc = "solve"
    /\ iter >= solver.max_iter
    /\ pc' = "wrapup"
    /\ UNCHANGED <<caller, inp, req, pruning_cutoff, ev, sol, par, solver, iter, neighbors, sel,
                   raised, returned>>

\* the time limit is reached (lines 56-59)
TimeLimit ==
    /\ pc = "solve"
    /\ iter < solver.max_iter
    /\ pc' = "wrapup"
    /\ UNCHANGED <<caller, inp, req, pruning_cutoff, ev, sol, par, solver, iter, neighbors, sel,
                   raised, returned>>

\* 1. Generate Neighbors, as solve calls it (lines 62-65): two arguments for
\* three parameters
CallGenerator ==
    /\ pc = "solve"
    /\ iter < solver.max_iter
    /\ Len(solve_call_args) # Len(generate_neighbors_params)
    /\ raised' = "TypeError"
    /\ pc' = "raised"
    /\ UNCHANGED <<caller, inp, req, pruning_cutoff, ev, sol, par, solver, iter, neighbors, sel,
                   returned>>

\* 1. Generate Neighbors, when the call binds the three parameters, and the
\* sort of line 70
Generate ==
    /\ pc = "solve"
    /\ iter < solver.max_iter
    /\ \E q \in generate_neighbors(solver.current_solution) :
          /\ q # <<>>
          /\ neighbors' = SortedByCost(q)
    /\ pc' = "select"
    /\ UNCHANGED <<caller, inp, req, pruning_cutoff, ev, sol, par, solver, iter, sel, raised,
                   returned>>

\* the batch is empty (line 67)
NoNeighbors ==
    /\ pc = "solve"
    /\ iter < solver.max_iter
    /\ <<>> \in _generate_traditional_neighbors(solver.current_solution, 0)
    /\ iter' = iter + 1
    /\ UNCHANGED <<caller, inp, req, pc, pruning_cutoff, ev, sol, par, solver, neighbors, sel,
                   raised, returned>>

\* 2. Select Best Move, 3. feedback, 4. Update Tenure and the report
\* (lines 69-124).  NeighborGenerator has no update_reward, q_values or
\* epsilon.
Select ==
    /\ pc = "select"
    /\ LET j == FirstAccepted(solver, neighbors)
           locals == SelectionLocals(solver, neighbors, j)
           s1 == SelectBestMove(solver, neighbors)
       IN  /\ sel' = locals
           /\ IF locals.chosen_op # None
              THEN /\ solver' = s1
                   /\ raised' = "AttributeError"
                   /\ pc' = "raised"
                   /\ UNCHANGED iter
              ELSE /\ solver' = _update_tenure(s1, locals.improvement_this_iteration)
                   /\ IF iter % 100 = 0 /\ iter > 0
                      THEN /\ raised' = "AttributeError"
                           /\ pc' = "raised"
                           /\ UNCHANGED iter
                      ELSE /\ iter' = iter + 1
                           /\ pc' = "solve"
                           /\ UNCHANGED raised
    /\ neighbors' = <<>>
    /\ UNCHANGED <<caller, inp, req, pruning_cutoff, ev, sol, par, returned>>

\* Final Wrap-up (lines 126-133)
WrapUp ==
    /\ pc = "wrapup"
    /\ \E r \in repair_and_evaluate([solver.best_solution EXCEPT
                                       !.keys = @ \cup {"is_final_check"}]) :
          /\ solver' = [solver EXCEPT !.best_solution = r]
          /\ returned' = r
    /\ pc' = "returned"
    /\ UNCHANGED <<caller, inp, req, pruning_cutoff, ev, sol, par, iter, neighbors, sel, raised>>

(***************************************************************************)
(* SpecSolve: TabuSearchSolver(...).solve() as written.                    *)
(***************************************************************************)
NoRequest == <<>>

SolveArgs ==
    { [ max_iter |-> m, tabu_tenure |-> 2, min_tenure |-> 1, max_tenure |-> 4,
        increase_threshold |-> 2, decrease_threshold |-> 2 ] : m \in 0..MaxIter }

InitSolve ==
    /\ inp \in Inputs
    /\ par \in SolveArgs
    /\ req = NoRequest
    /\ pc = "new"
    /\ pruning_cutoff = Inf
    /\ ev = NoEval
    /\ sol = NoSolution
    /\ solver = NoSolver
    /\ iter = 0
    /\ neighbors = <<>>
    /\ sel = NoSelection
    /\ raised = ""
    /\ returned = NoSolution
    /\ caller = NoCaller

NextSolve ==
    \/ Construct
    \/ LoopExit
    \/ TimeLimit
    \/ CallGenerator
    \/ WrapUp

SpecSolve == InitSolve /\ [][NextSolve]_vars

(***************************************************************************)
(* SpecTabu: the loop of solve with the call of lines 62-65 binding the    *)
(* three parameters of generate_neighbors.  Line 2 makes one style only,   *)
(* so the moves are those of line 1.                                       *)
(***************************************************************************)
TabuInputs ==
    { [ T         |-> 2,
        allowed   |-> [l \in Lines |-> IF l = 1 THEN <<0, 1, 2>> ELSE <<1>>],
        y0        |-> [l \in Lines |-> IF l = 1 THEN y ELSE 1],
        I0fabric  |-> [s \in Styles |-> IF s = 2 THEN f2 ELSE 9],
        F         |-> [k \in Styles \X DaysOf(2) |-> 0],
        Tfab      |-> [s \in Styles |-> 0],
        Tprod     |-> [s \in Styles |-> 0],
        H         |-> [k \in Lines \X DaysOf(2) |-> 1],
        D         |-> [k \in Styles \X DaysOf(2) |-> IF k[1] = 0 THEN 1 ELSE 0],
        I0product |-> [s \in Styles |-> IF s = 0 THEN p0 ELSE 0],
        B0        |-> [s \in Styles |-> 0],
        curve     |-> << <<0, 2>>, <<2, 4>> >> ] :
      y \in {0, 1}, f2 \in {0, 9}, p0 \in {0, 9} }

TabuArgs ==
    { [ max_iter |-> m, tabu_tenure |-> 2, min_tenure |-> 1, max_tenure |-> 4,
        increase_threshold |-> 2, decrease_threshold |-> 2 ] : m \in {0, MaxIter} }

InitTabu ==
    /\ inp \in TabuInputs
    /\ par \in TabuArgs
    /\ req = NoRequest
    /\ pc = "new"
    /\ pruning_cutoff = Inf
    /\ ev = NoEval
    /\ sol = NoSolution
    /\ solver = NoSolver
    /\ iter = 0
    /\ neighbors = <<>>
    /\ sel = NoSelection
    /\ raised = ""
    /\ returned = NoSolution
    /\ caller = NoCaller

NextTabu ==
    \/ Construct
    \/ LoopExit
    \/ TimeLimit
    \/ Generate
    \/ NoNeighbors
    \/ Select
    \/ WrapUp

SpecTabu == InitTabu /\ [][NextTabu]_vars


(***************************************************************************)
(* Reading a step of the selection: the batch is `neighbors`, sorted, and  *)
(* the queue and the best cost are those of the solver before the step.    *)
(***************************************************************************)
SignatureOf(n) == _get_move_signature(solver.current_solution.assignment, n.assignment)

InQueue(n) == SignatureOf(n) \in Range(solver.tabu_list)

BeatsBest(n) == n.total_cost < solver.best_cost

Qualifies(n) == BeatsBest(n) \/ ~InQueue(n)

Constructed == pc \in {"solve", "select", "wrapup"}

(***************************************************************************)
(* C6.  Across the iterations of solve best_cost never increases, and at   *)
(* every iteration boundary best_cost is the total_cost stored in          *)
(* best_solution and is at most the total_cost of every solution accepted  *)
(* as incumbent so far (self.costs), the initial one included.             *)
(***************************************************************************)
C6_BestCostBoundary ==
    Constructed =>
       /\ solver.best_cost = solver.best_solution.total_cost
       /\ \A j \in DOMAIN solver.costs : solver.best_cost <= solver.costs[j]

C6_BestCostStep == Constructed => solver'.best_cost <= solver.best_cost

\* C6: no step of solve raises best_cost, and the boundary condition holds in
\* every state
C6_BestCostNeverIncreases == [][C6_BestCostStep]_vars /\ []C6_BestCostBoundary

\* the best cost has improved on the initial one and the incumbent accepted
\* last is worse than the best
C6_Witness ==
    /\ pc = "solve"
    /\ iter >= 2
    /\ solver.best_cost < solver.costs[1]
    /\ solver.costs[Len(solver.costs)] > solver.best_cost

(***************************************************************************)
(* C7.  The batch being sorted by ascending total_cost, the neighbour      *)
(* accepted is the first that beats best_cost or whose signature is not in *)
(* the queue; every neighbour before it has its signature in the queue and *)
(* does not beat best_cost; when no neighbour qualifies the lowest-cost    *)
(* neighbour is accepted.                                                  *)
(***************************************************************************)
C7_Decision ==
    pc = "select" =>
       /\ \A j \in 1..(Len(neighbors) - 1) :
             neighbors[j].total_cost <= neighbors[j + 1].total_cost
       /\ \E j \in 1..Len(neighbors) :
             /\ solver'.current_solution = neighbors[j]
             /\ IF \E m \in 1..Len(neighbors) : Qualifies(neighbors[m])
                THEN /\ Qualifies(neighbors[j])
                     /\ \A m \in 1..(j - 1) :
                           InQueue(neighbors[m]) /\ ~BeatsBest(neighbors[m])
                ELSE \A m \in 1..Len(neighbors) :
                        neighbors[j].total_cost <= neighbors[m].total_cost

\* C7: every selection step accepts the first qualifying neighbour of the
\* sorted batch, or the lowest-cost one when none qualifies
C7_FirstQualifyingAccepted == [][C7_Decision]_vars

\* a selection has passed over a cheaper neighbour and accepted a later one
C7_Witness ==
    /\ pc = "solve"
    /\ iter >= 1
    /\ sel.best_neighbor_found
    /\ sel.position >= 2
    /\ solver.costs[Len(solver.costs)] = solver.current_solution.total_cost

(***************************************************************************)
(* C8.  When the lowest-cost neighbour of the batch costs strictly less    *)
(* than best_cost it is accepted, its signature in the queue or not, and   *)
(* best_cost becomes its total_cost and best_solution a copy of it.        *)
(***************************************************************************)
C8_Decision ==
    (pc = "select" /\ BeatsBest(neighbors[1])) =>
       /\ \A m \in 1..Len(neighbors) : neighbors[1].total_cost <= neighbors[m].total_cost
       /\ solver'.current_solution = neighbors[1]
       /\ solver'.best_cost = neighbors[1].total_cost
       /\ solver'.best_solution = neighbors[1]

C9_SolveNeverRaises == raised = ""

(***************************************************************************)
(* C10.  The Solution solve returns is the best found: its assignment is   *)
(* the best assignment recorded during the search and its total_cost is    *)
(* best_cost; the final re-evaluation changes neither.  The code breaks    *)
(* it: re-evaluating an assignment the evaluator has rewritten can rewrite *)
(* it again.                                                               *)
(***************************************************************************)
C10_Return ==
    pc = "wrapup" =>
       /\ returned'.assignment = solver.best_solution.assignment
       /\ returned'.total_cost = solver.best_cost

\* C10: every wrap-up step returns the assignment of best_solution at the
\* cost best_cost
C10_ReturnsBestFound == [][C10_Return]_vars

(***************************************************************************)
(* The move that undoes a move.  A signature lists, for the cells that     *)
(* change, (cell, old style, new style); the move back lists the same      *)
(* cells with the two styles exchanged.                                    *)
(***************************************************************************)
ReverseOf(g) == [j \in DOMAIN g |-> <<g[j][1], g[j][3], g[j][2]>>]

UndoesQueued(n) ==
    \E j \in DOMAIN solver.tabu_list : SignatureOf(n) = ReverseOf(solver.tabu_list[j])

FreeNeighbour(n) == ~InQueue(n) /\ ~UndoesQueued(n)

(***************************************************************************)
(* C11.  While the signature of an accepted move A -> A' is in the queue,  *)
(* the move back A' -> A is tabu: a selection step accepts it, when it     *)
(* does not beat best_cost, only if the batch holds no other neighbour     *)
(* that is free of the queue.  The code breaks it: the queue is searched   *)
(* for the signature of the move back itself, which differs from the       *)
(* signature of the move it undoes.                                        *)
(***************************************************************************)
C11_Decision ==
    pc = "select" =>
       \A j \in 1..Len(neighbors) :
          ( /\ solver'.current_solution = neighbors[j]
            /\ UndoesQueued(neighbors[j])
            /\ ~BeatsBest(neighbors[j]) )
          => ~\E m \in 1..Len(neighbors) : m # j /\ FreeNeighbour(neighbors[m])

\* C11: no selection step accepts the move back of a queued move while a free
\* neighbour is in the batch, unless it beats best_cost
C11_ReverseMoveIsTabu == [][C11_Decision]_vars

(***************************************************************************)
(* C12.  Forced switch on trailing zero.  A line enables the two styles A  *)
(* and B, the horizon has two days, A has no fabric at any time, B has     *)
(* fabric from day 1 and the line is asked for [A, A], its initial style   *)
(* being A, B or none: day 1 is realised as B, and one changeover is       *)
(* recorded for the line on day 1 iff its initial style is not B.  The     *)
(* code breaks it: on A the line waits on day 1 (day 2 asks for A too),    *)
(* and with no initial style no case of the material logic applies.        *)
(***************************************************************************)
TrailingZeroCase(l, A, B) ==
    /\ Len(setT) = 2
    /\ line_allowed_sets[l] = {A, B}
    /\ A # B
    /\ _get_initial_style_id(l) \in {A, B, None}
    /\ inp.I0fabric[A] = 0
    /\ \A t \in Days : param_F(A, t - inp.Tfab[A]) = 0
    /\ inp.I0fabric[B] > 0
    /\ req[<<l, 1>>] = A
    /\ req[<<l, 2>>] = A

ChangesOn(solution, l, t) == {c \in solution.changes : c[1] = l /\ c[4] = t}

C12_ForcedSwitchOnDayOne ==
    pc = "done" =>
       \A l \in Lines : \A A, B \in Styles :
          TrailingZeroCase(l, A, B) =>
             /\ sol.assignment[<<l, 1>>] = B
             /\ (Cardinality(ChangesOn(sol, l, 1)) = 1) <=> (_get_initial_style_id(l) # B)

(***************************************************************************)
(* Reading the decision of a line on the day about to be simulated         *)
(* (ev.ti): the proposed style is the cell as the day finds it, the fabric *)
(* at decision time is the inventory after the day's receipts, and the     *)
(* day is a valid bridge when the line is on the proposed style and the    *)
(* next day's cell holds it too.                                           *)
(***************************************************************************)
DayStep == pc = "loop" /\ ev.ti <= Len(setT)

Proposed(l) == ev.s.assignment[<<l, ev.ti>>]

ProposedHasFabric(l) == HasFabric(FabricReceipts(ev, ev.ti), Proposed(l))

ValidBridge(l) ==
    /\ ev.line_states[l].current_style = Proposed(l)
    /\ ev.ti < Len(setT)
    /\ ev.s.assignment[<<l, ev.ti + 1>>] = Proposed(l)

(***************************************************************************)
(* C13.  When the proposed style of a slot has fabric at decision time, or *)
(* the slot is a valid bridge, the realised style is the proposed one; on  *)
(* a valid bridge without fabric the line produces nothing and no          *)
(* changeover is recorded; a line that continues its style on a working    *)
(* day on which the style has fabric, as after a bridge, produces a        *)
(* positive quantity.                                                      *)
(***************************************************************************)
C13_Day ==
    DayStep =>
       \A l \in Lines :
          LET t == ev.ti
              made == ev'.s.production[t][l]
          IN  /\ (ProposedHasFabric(l) \/ ValidBridge(l))
                    => ev'.s.assignment[<<l, t>>] = Proposed(l)
              /\ (ValidBridge(l) /\ ~ProposedHasFabric(l))
                    => made.num = 0 /\ ChangesOn(ev'.s, l, t) = {}
              /\ ( /\ ProposedHasFabric(l)
                   /\ ev.line_states[l].current_style = Proposed(l)
                   /\ inp.H[<<l, t>>] > 0 )
                    => made.style = Proposed(l) /\ made.num > 0

SameFamily(a, b) == <<a, b>> \in setSsame \/ <<b, a>> \in setSsame

C14_Day ==
    DayStep =>
       \A l \in Lines :
          LET t == ev.ti
              st == ev.line_states[l]
              accumulated == st.exp + st.up_exp
          IN  \A c \in ChangesOn(ev'.s, l, t) :
                 /\ ev'.s.experience[<<l, t>>] =
                       IF SameFamily(c[2], c[3]) THEN accumulated ELSE paramLexp[<<l, c[3]>>]
                 /\ ev'.s.efficiency[<<l, t>>] = calc_eff(ev'.s.experience[<<l, t>>])

\* C14: every changeover records the experience the family rule gives and the
\* efficiency of that experience
C14_ExperienceOnChangeover == [][C14_Day]_vars

(***************************************************************************)
(* SpecDemand: the evaluator called on one requested assignment under a    *)
(* demand table, and again under a table raised in one cell or in all.     *)
(* caller keeps the data and the Solution of the first call.               *)
(***************************************************************************)
DemandInputs == {d \in Inputs : d.y0[1] = 0}

DemandRequests ==
    {r \in Requests : r[<<2, NumDays>>] = 1 /\ \A t \in DaysOf(NumDays) : r[<<1, t>>] \in {0, 1}}

RaisedDemands(D) ==
    { [k \in DOMAIN D |-> IF k = c[1] THEN D[k] + c[2] ELSE D[k]] : c \in (DOMAIN D) \X {1, 5} }
    \cup { [k \in DOMAIN D |-> D[k] + 1] }

InitDemand ==
    /\ inp \in DemandInputs
    /\ req \in DemandRequests
    /\ pc = "idle"
    /\ pruning_cutoff = Inf
    /\ ev = NoEval
    /\ sol = NoSolution
    /\ par = NoSolver
    /\ solver = NoSolver
    /\ iter = 0
    /\ neighbors = <<>>
    /\ sel = NoSelection
    /\ raised = ""
    /\ returned = NoSolution
    /\ caller = NoCaller

\* a second evaluator is built over the raised demand table (paramD)
RaiseDemand ==
    /\ pc = "done"
    /\ caller.calls = 0
    /\ \E D2 \in RaisedDemands(inp.D) : inp' = [inp EXCEPT !.D = D2]
    /\ caller' = [calls |-> 1, input |-> inp, result |-> sol]
    /\ pc' = "idle"
    /\ UNCHANGED <<req, pruning_cutoff, ev, sol>>
    /\ UNCHANGED tabu_vars

NextDemand ==
    \/ Call
    \/ Day
    \/ Return
    \/ RaiseDemand

SpecDemand == InitDemand /\ [][NextDemand]_vars

\* the backlog of style s after day t, from the ledgers of a Solution
BacklogAt(data, solution, s, t) ==
    data.B0[s]
    + SumSeq([u \in 1..t |-> data.D[<<s, u>>]])
    - SumSeq([u \in 1..t |-> solution.shipment[u][s]])

\* the second call has returned, and its random draws were resolved as those
\* of the first: the same realised assignment and the same production
SameDraws ==
    /\ pc = "done"
    /\ caller.calls = 1
    /\ sol.assignment = caller.result.assignment
    /\ sol.production = caller.result.production

(***************************************************************************)
(* C15.  For one requested assignment, the other inputs and the random     *)
(* draws being the same, raising the demand never lowers the backlog of a  *)
(* style on any day nor total_late.                                        *)
(***************************************************************************)
C15_BacklogMonotoneInDemand ==
    SameDraws =>
       /\ \A s \in Styles : \A t \in Days :
             BacklogAt(inp, sol, s, t) >= BacklogAt(caller.input, caller.result, s, t)
       /\ sol.total_late >= caller.result.total_late

\* the raised demand has left a larger backlog on the last day and a larger
\* total_late, the first call having shipped something
C15_Witness ==
    /\ SameDraws
    /\ sol.total_late > caller.result.total_late
    /\ caller.result.total_late > 0
    /\ \E s \in Styles :
          /\ BacklogAt(inp, sol, s, Len(setT)) > BacklogAt(caller.input, caller.result, s, Len(setT))
          /\ \E t \in Days : caller.result.shipment[t][s] > 0

(***************************************************************************)
(* C16.  In a completed evaluation total_setup is the sum, over the        *)
(* changeover events (l, s_from, s_to, t) recorded in changes, of          *)
(* Csetup * discount(t): one discounted setup cost for each event and      *)
(* nothing else.  A line records at most one event on a day.               *)
(***************************************************************************)
C16_SetupIsSumOverChanges ==
    pc = "done" =>
       /\ \A l \in Lines : \A t \in Days : Cardinality(ChangesOn(sol, l, t)) <= 1
       /\ sol.total_setup =
             SumSeq([j \in DOMAIN CellsInOrder |->
                        Cardinality(ChangesOn(sol, CellsInOrder[j][1], CellsInOrder[j][2]))
                        * Csetup * _discount(CellsInOrder[j][2])])

\* changeovers are recorded on two different days and on both lines
C16_Witness ==
    /\ pc = "done"
    /\ \E c1, c2 \in sol.changes : c1[4] # c2[4]
    /\ \E c1, c2 \in sol.changes : c1[1] # c2[1]
    /\ sol.total_setup > 0

(***************************************************************************)
(* SpecPrune: the evaluator called after set_pruning_best, or with the     *)
(* ceiling left infinite.  pruning_cutoff is kept in tenths of a cost, so  *)
(* that best_cost * 1.2 is exact.  caller keeps the ceiling it has set.    *)
(***************************************************************************)
\* lines 42-46
set_pruning_best(best_cost) == IF best_cost = Inf THEN Inf ELSE 12 * best_cost

Ceilings == {-4, 8, 20, Inf}

InitPrune ==
    /\ inp \in Inputs
    /\ req \in DemandRequests
    /\ pc = "idle"
    /\ pruning_cutoff = Inf
    /\ ev = NoEval
    /\ sol = NoSolution
    /\ par = NoSolver
    /\ solver = NoSolver
    /\ iter = 0
    /\ neighbors = <<>>
    /\ sel = NoSelection
    /\ raised = ""
    /\ returned = NoSolution
    /\ caller = NoCaller

SetPruningBest ==
    /\ pc = "idle"
    /\ "ceiling" \notin DOMAIN caller
    /\ \E c \in Ceilings :
          /\ pruning_cutoff' = set_pruning_best(c)
          /\ caller' = [calls |-> 0, ceiling |-> c]
    /\ UNCHANGED <<inp, req, pc, ev, sol>>
    /\ UNCHANGED tabu_vars

\* Fast Fail at the head of a day (lines 234-238)
Prune ==
    /\ pc = "loop"
    /\ ev.ti <= Len(setT)
    /\ FastFail(ev)
    /\ sol' = Pruned(ev)
    /\ ev' = NoEval
    /\ pc' = "done"
    /\ UNCHANGED <<caller, inp, req, pruning_cutoff>>
    /\ UNCHANGED tabu_vars

NextPrune ==
    \/ SetPruningBest
    \/ Call
    \/ Day
    \/ Prune
    \/ Return

SpecPrune == InitPrune /\ [][NextPrune]_vars

CeilingSet == "ceiling" \in DOMAIN caller /\ caller.ceiling # Inf

(***************************************************************************)
(* C17.  After the ceiling has been set to a finite c the cutoff in force  *)
(* is c, and an evaluation that completes returns a finite total_cost that *)
(* does not exceed c; with no ceiling, or an infinite one, no evaluation   *)
(* is cut short.  The code breaks it: the cutoff is 1.2 * c, and it is     *)
(* compared with the partial cost at the head of each day only.            *)
(***************************************************************************)
C17_CeilingIsCutoff ==
    /\ CeilingSet => pruning_cutoff = 10 * caller.ceiling
    /\ (CeilingSet /\ pc = "done" /\ sol.total_cost # Inf) => sol.total_cost <= caller.ceiling
    /\ (~CeilingSet /\ pc = "done") => sol.total_cost # Inf

(***************************************************************************)
(* SpecTenure: the loop of solve, as in SpecTabu, with tenure = min_tenure *)
(* = 5, max_tenure = 9 and increase_threshold = 3.                         *)
(***************************************************************************)
TenureArgs ==
    { [ max_iter |-> MaxIter, tabu_tenure |-> 5, min_tenure |-> 5, max_tenure |-> 9,
        increase_threshold |-> 3, decrease_threshold |-> 2 ] }

InitTenure ==
    /\ inp \in TabuInputs
    /\ par \in TenureArgs
    /\ req = NoRequest
    /\ pc = "new"
    /\ pruning_cutoff = Inf
    /\ ev = NoEval
    /\ sol = NoSolution
    /\ solver = NoSolver
    /\ iter = 0
    /\ neighbors = <<>>
    /\ sel = NoSelection
    /\ raised = ""
    /\ returned = NoSolution
    /\ caller = NoCaller

SpecTenure == InitTenure /\ [][NextTabu]_vars

\* q1 holds the last entries of q0, in their order
IsSuffix(q1, q0) ==
    /\ Len(q1) <= Len(q0)
    /\ q1 = SubSeq(q0, Len(q0) - Len(q1) + 1, Len(q0))

\* q1 begins with the entries of q0, in their order
IsPrefix(q0, q1) ==
    /\ Len(q0) <= Len(q1)
    /\ q0 = SubSeq(q1, 1, Len(q0))

\* no iteration so far has improved best_cost
NeverImproved == Constructed /\ solver.best_cost = solver.costs[1]

(***************************************************************************)
(* C18.  Adaptive tenure growth.  With tenure = min_tenure = 5,            *)
(* max_tenure = 9 and increase_threshold = 3, after three consecutive      *)
(* iterations that do not improve best_cost the tenure is 7 and the        *)
(* capacity of the queue is 7, the signatures queued before the resize     *)
(* being kept in their order; after every tenure update the capacity is    *)
(* the current tenure, and a queue that shrinks keeps its most recent      *)
(* entries.  The code breaks the first part: an iteration whose batch is   *)
(* empty ends before the tenure update and is not counted.                 *)
(***************************************************************************)
C18_AfterThree ==
    (par \in TenureArgs /\ pc = "solve" /\ iter = 3 /\ NeverImproved) =>
       /\ solver.current_tenure = 7
       /\ solver.maxlen = 7

C18_Capacity == Constructed => solver.maxlen = solver.current_tenure

C18_Resize ==
    pc = "select" =>
       /\ solver'.current_tenure > solver.current_tenure
             => IsPrefix(solver.tabu_list, solver'.tabu_list)
       /\ solver'.current_tenure < solver.current_tenure
             => \E q \in {solver.tabu_list}
                         \cup {Append(solver.tabu_list, SignatureOf(neighbors[j])) :
                               j \in 1..Len(neighbors)} :
                   /\ IsSuffix(solver'.tabu_list, q)
                   /\ Len(solver'.tabu_list) = Min(Len(q), solver'.current_tenure)

\* C18: the tenure is 7 after three iterations without improvement, the
\* capacity of the queue is the tenure, and a resize keeps the entries as said
C18_TenureGrowth == []C18_AfterThree /\ []C18_Capacity /\ [][C18_Resize]_vars

(***************************************************************************)
(* SpecInitial: the construction of the solver on data where styles tie    *)
(* for the largest total demand.  cap_map[l] is a set of style names, and  *)
(* line_allowed_lists[l] lists it in the order the set is iterated in, so  *)
(* the lists come in several orders.                                       *)
(***************************************************************************)
TieInputs ==
    { [ T         |-> NumDays,
        allowed   |-> [l \in Lines |-> IF l = 1 THEN a1 ELSE a2],
        y0        |-> [l \in Lines |-> None],
        I0fabric  |-> [s \in Styles |-> 9],
        F         |-> [k \in Styles \X DaysOf(NumDays) |-> 0],
        Tfab      |-> [s \in Styles |-> 0],
        Tprod     |-> [s \in Styles |-> 0],
        H         |-> [k \in Lines \X DaysOf(NumDays) |-> 1],
        D         |-> [k \in Styles \X DaysOf(NumDays) |-> IF k[2] = 1 THEN d[k[1]] ELSE 0],
        I0product |-> [s \in Styles |-> 0],
        B0        |-> [s \in Styles |-> 0],
        curve     |-> << <<0, 2>>, <<2, 4>> >> ] :
      a1 \in {<<0, 1, 2>>, <<1, 0, 2>>, <<2, 1, 0>>},
      a2 \in {<<0, 1>>, <<1, 0>>},
      d \in [Styles -> {1, 2}] }

InitInitial ==
    /\ inp \in TieInputs
    /\ par \in SolveArgs
    /\ req = NoRequest
    /\ pc = "new"
    /\ pruning_cutoff = Inf
    /\ ev = NoEval
    /\ sol = NoSolution
    /\ solver = NoSolver
    /\ iter = 0
    /\ neighbors = <<>>
    /\ sel = NoSelection
    /\ raised = ""
    /\ returned = NoSolution
    /\ caller = NoCaller

SpecInitial == InitInitial /\ [][NextSolve]_vars

LargestDemand(l) ==
    {s \in Range(line_allowed_lists[l]) :
        \A s2 \in Range(line_allowed_lists[l]) : total_demand(s) >= total_demand(s2)}

(***************************************************************************)
(* C19.  initialize_solution requests, for every line and every day, an    *)
(* allowed style of largest total demand; among several of them the choice *)
(* is the same whatever the order in which the allowed styles of the line  *)
(* are listed; and the solver starts from the evaluation of that request.  *)
(* The code breaks the second part: max() returns the first of the largest *)
(* in the order of the list.                                               *)
(***************************************************************************)
C19_TieByStyleId ==
    (pc = "solve" /\ iter = 0) =>
       /\ \A k \in Cells :
             /\ req[k] \in LargestDemand(k[1])
             /\ \A q \in Orders(Range(line_allowed_lists[k[1]])) : req[k] = first_largest(q)
       /\ solver.current_solution \in repair_and_evaluate(NewSolution(req))

(***************************************************************************)
(* SpecCurve: get_efficiency as a function of the experience, for          *)
(* learning curves whose breakpoints lie below, at and above               *)
(* max_lookup_day.  The caller keeps the argument and the value returned.  *)
(***************************************************************************)
MaxExp == 24

Curves ==
    { << <<0, 2>>, <<2, 4>> >>,
      << <<1, 1>>, <<3, 3>>, <<10, 3>>, <<11, 4>> >>,
      << <<5, 4>> >>,
      << <<1, 4>>, <<3, 2>> >>,
      << <<18, 1>>, <<20, 3>> >>,
      << <<19, 2>>, <<21, 4>> >> }

CurveInputs == { [d EXCEPT !.curve = c] : d \in TabuInputs, c \in Curves }

InitCurve ==
    /\ inp \in CurveInputs
    /\ par \in TabuArgs
    /\ req = NoRequest
    /\ pc = "idle"
    /\ pruning_cutoff = Inf
    /\ ev = NoEval
    /\ sol = NoSolution
    /\ solver = NoSolver
    /\ iter = 0
    /\ neighbors = <<>>
    /\ sel = NoSelection
    /\ raised = ""
    /\ returned = NoSolution
    /\ caller = NoCaller

\* get_efficiency(exp_days) (lines 107-121)
GetEfficiency ==
    /\ \E exp_days \in 0..MaxExp :
          caller' = [calls |-> 1, exp_days |-> exp_days, eff |-> get_efficiency(exp_days)]
    /\ UNCHANGED <<inp, req, pc, pruning_cutoff, ev, sol, par, solver, iter, neighbors, sel,
                   raised, returned>>

NextCurve == GetEfficiency

SpecCurve == InitCurve /\ [][NextCurve]_vars

\* y is the piecewise-linear interpolation of the breakpoints c at e, clamped
\* to the efficiency of the first and of the last breakpoint
Interpolates(c, e, y) ==
    IF e <= c[1][1] THEN y = c[1][2]
    ELSE IF e >= c[Len(c)][1] THEN y = c[Len(c)][2]
    ELSE \E i \in 1..(Len(c) - 1) :
            /\ c[i][1] <= e
            /\ e <= c[i + 1][1]
            /\ (y - c[i][2]) * (c[i + 1][1] - c[i][1]) = (c[i + 1][2] - c[i][2]) * (e - c[i][1])

NonDecreasing(c) == \A i \in 1..(Len(c) - 1) : c[i][2] <= c[i + 1][2]

(***************************************************************************)
(* C20.  For every whole number e >= 0 of experience days, those above 20  *)
(* included, get_efficiency(e) is the piecewise-linear interpolation of    *)
(* the breakpoints at e, clamped to the first and last breakpoint's        *)
(* efficiency; and it is non-decreasing in e when the efficiencies of the  *)
(* breakpoints are.  The code breaks the first part: the table ends at     *)
(* day 20 and every e >= 20 gets the value of day 20.                      *)
(***************************************************************************)
C20_EfficiencyIsInterpolation ==
    "eff" \in DOMAIN caller =>
       /\ Interpolates(curve, caller.exp_days, caller.eff)
       /\ NonDecreasing(curve) =>
             \A e \in 0..caller.exp_days : get_efficiency(e) <= caller.eff

Aggregates == {"total_setup", "total_late", "total_exp"}

\* the aggregates of a returned solution are there, none negative, and add up
AggregatesPopulated(solution) ==
    /\ Aggregates \cup {"total_cost"} \subseteq solution.keys
    /\ solution.total_setup >= 0
    /\ solution.total_late >= 0
    /\ solution.total_exp >= 0
    /\ solution.total_cost = solution.total_setup + solution.total_late - solution.total_exp

(***************************************************************************)
(* C23.  Every Solution returned by repair_and_evaluate has total_setup,   *)
(* total_late and total_exp populated, none of them negative, and its      *)
(* total_cost is total_setup + total_late - total_exp.  The code breaks it *)
(* on the fast-fail return, which sets total_cost alone.                   *)
(***************************************************************************)
C23_AggregatesPopulated == pc = "done" => AggregatesPopulated(sol)

\* the styles line l may make that have fabric on the day about to be simulated
AllowedWithFabric(l) ==
    {s \in line_allowed_sets[l] : HasFabric(FabricReceipts(ev, ev.ti), s)}

\* the line must switch away: it is asked for a style without fabric and the
\* day is no valid bridge
MustSwitch(l) == Proposed(l) # None /\ ~ProposedHasFabric(l) /\ ~ValidBridge(l)

(***************************************************************************)
(* C24.  Must-switch rule.  When the proposed style of a slot has no       *)
(* fabric and the slot is no valid bridge, the realised style is the       *)
(* current style of the line if that has fabric; else a style the line may *)
(* make that has fabric, if there is one; else the current style (the      *)
(* proposed one when the line has no current style); and it is written     *)
(* into the cell.  The code breaks it: a line asked to leave its current   *)
(* style stays on it whether or not it has fabric, and a line with no      *)
(* current style keeps the proposal.                                       *)
(***************************************************************************)
C24_Day ==
    DayStep =>
       \A l \in Lines :
          LET t == ev.ti
              current == ev.line_states[l].current_style
              realised == ev'.s.assignment[<<l, t>>]
          IN  MustSwitch(l) =>
                 /\ IF current # None /\ HasFabric(FabricReceipts(ev, t), current)
                    THEN realised = current
                    ELSE IF AllowedWithFabric(l) # {}
                    THEN realised \in AllowedWithFabric(l)
                    ELSE realised = IF current = None THEN Proposed(l) ELSE current
                 /\ ev'.line_states[l].current_style = realised

\* C24: on every day of the time loop a line that must switch away goes to
\* the style the rule names
C24_MustSwitchRule == [][C24_Day]_vars

\* line l has waited on day t of the evaluation that gave `solution`: it was
\* on the style asked for, the style had no fabric after the day's receipts,
\* and the next day was asked for the same style
Waited(solution, l, t) ==
    LET s == req[<<l, t>>]
    IN  /\ t < Len(setT)
        /\ s # None
        /\ _is_allowed(l, s)
        /\ req[<<l, t + 1>>] = s
        /\ IF t = 1 THEN _get_initial_style_id(l) = s ELSE solution.assignment[<<l, t - 1>>] = s
        /\ solution.fab_before[t][s] = 0
        /\ solution.assignment[<<l, t>>] = s

(***************************************************************************)
(* C26.  A bridge day is followed by the same style: when a line has       *)
(* waited on day t, kept on a style without fabric because day t + 1 asks  *)
(* for the same style, the realised style of the line on day t + 1 is that *)
(* style.  The code breaks it: on day t + 1 the style can be without       *)
(* fabric again, and the line is then moved to a style that has fabric.    *)
(***************************************************************************)
C26_BridgeThenSameStyle ==
    pc = "done" =>
       \A l \in Lines : \A t \in Days :
          Waited(sol, l, t) => sol.assignment[<<l, t + 1>>] = req[<<l, t>>]

(***************************************************************************)
(* SpecAgain: the evaluator called on a requested assignment, and again on *)
(* the assignment of the Solution it has returned, as solve does with its  *)
(* best solution (tabu_search.py lines 131-132).  caller keeps the         *)
(* Solution of the first call.                                             *)
(***************************************************************************)
Reevaluate ==
    /\ pc = "done"
    /\ caller.calls = 0
    /\ req' = sol.assignment
    /\ caller' = [calls |-> 1, result |-> sol]
    /\ pc' = "idle"
    /\ UNCHANGED <<inp, pruning_cutoff, ev, sol>>
    /\ UNCHANGED tabu_vars

NextAgain ==
    \/ Call
    \/ Day
    \/ Return
    \/ Reevaluate

SpecAgain == Init /\ [][NextAgain]_vars

(***************************************************************************)
(* C29.  Evaluation is idempotent on its own output: the evaluation of the *)
(* realised assignment of a returned Solution, on the same data and with   *)
(* no ceiling, returns the same assignment, the same changes and the same  *)
(* total_cost.  The code breaks it: a cell the first evaluation has left   *)
(* on a style without fabric is read again as a proposal, with the         *)
(* realised next day for look-ahead, and can be moved to another style.    *)
(***************************************************************************)
C29_EvaluationIdempotent ==
    (pc = "done" /\ caller.calls = 1) =>
       /\ sol.assignment = caller.result.assignment
       /\ sol.changes = caller.result.changes
       /\ sol.total_cost = caller.result.total_cost

(***************************************************************************)
(* SpecExp: the evaluator on data where line 2 starts on style 1, which it *)
(* may make, and where the learning curve starts at efficiency 0 or above. *)
(***************************************************************************)
ExpInputs ==
    { [d EXCEPT !.y0 = [l \in Lines |-> IF l = 1 THEN None ELSE 1], !.curve = c] :
      d \in Inputs, c \in { << <<0, 2>>, <<2, 4>> >>, << <<0, 0>>, <<2, 4>> >> } }

InitExp ==
    /\ inp \in ExpInputs
    /\ req \in Requests
    /\ pc = "idle"
    /\ pruning_cutoff = Inf
    /\ ev = NoEval
    /\ sol = NoSolution
    /\ par = NoSolver
    /\ solver = NoSolver
    /\ iter = 0
    /\ neighbors = <<>>
    /\ sel = NoSelection
    /\ raised = ""
    /\ returned = NoSolution
    /\ caller = NoCaller

SpecExp == InitExp /\ [][Next]_vars

\* line l is a production candidate on the day just simulated
Candidate(l, t) ==
    /\ ev'.s.assignment[<<l, t>>] # None
    /\ inp.H[<<l, t>>] > 0
    /\ paramSAM[ev'.s.assignment[<<l, t>>]] > 0

\* the share recorded for line l on the day just simulated is at least half
\* of its max_p
HalfOfMaxP(l, t) ==
    LET p == ev'.s.production[t][l]
    IN  /\ p.style # None
        /\ 2 * p.num >= RecordedMaxP(ev'.s, l, t) * p.den

(***************************************************************************)
(* C30.  Experience accrues in whole days from production only.  A line    *)
(* gains one day of experience, counted on the next day, when it was a     *)
(* production candidate and its share was at least half of its max_p, and  *)
(* none otherwise; the experience recorded for a day on which the line     *)
(* does not change style is that of the day before plus that gain, so at   *)
(* most one more; and the lines making one style on one day all gain or    *)
(* all do not.  The code breaks the last part: a candidate whose max_p is  *)
(* 0 has a share of 0, which is at least half of its max_p, whatever the   *)
(* other lines of the style get.                                           *)
(***************************************************************************)
C30_Day ==
    DayStep =>
       LET t == ev.ti
       IN  /\ \A l \in Lines :
                /\ ev'.line_states[l].up_exp
                      = IF Candidate(l, t) /\ HalfOfMaxP(l, t) THEN 1 ELSE 0
                /\ ev'.s.assignment[<<l, t>>] # None
                      => ev'.s.experience[<<l, t>>] = ev'.line_states[l].exp
                /\ (ev'.s.assignment[<<l, t>>] # None /\ ChangesOn(ev'.s, l, t) = {})
                      => ev'.s.experience[<<l, t>>]
                            = ev.line_states[l].exp + ev.line_states[l].up_exp
           /\ \A l1, l2 \in Lines :
                ( /\ Candidate(l1, t) /\ Candidate(l2, t)
                  /\ ev'.s.assignment[<<l1, t>>] = ev'.s.assignment[<<l2, t>>] )
                   => ev'.line_states[l1].up_exp = ev'.line_states[l2].up_exp

\* C30: on every day of the time loop the experience is carried and gained
\* as said
C30_ExperienceAccrual == [][C30_Day]_vars

(***************************************************************************)
(* C22.  Every Solution of the batch the driver selects from, local move   *)
(* or multi-objective move, carries a tag that names the operator that     *)
(* made it, and the driver reads that tag: neighbor.get('origin_operator') *)
(* gives it.  In the code a local move carries no tag at all and a         *)
(* multi-objective move carries 'type', which the driver does not read.    *)
(***************************************************************************)
C22_TagIsRead ==
    pc = "select" => \A j \in DOMAIN neighbors : origin_operator(neighbors[j]) # None

(***************************************************************************)
(* C25.  The tabu queue records every accepted move.  In every step of the *)
(* selection a neighbour becomes the incumbent, the fallback step in which *)
(* every neighbour is tabu and none beats the best included, and after it  *)
(* the signature of the move from the old incumbent to the new one is the  *)
(* newest entry of the queue, the oldest entry being dropped when the      *)
(* queue was full (and the queue cut to the tenure the step ends with).    *)
(* No other step changes the queue.  The fallback branch of the code makes *)
(* neighbors[0] the incumbent and appends nothing.                         *)
(***************************************************************************)
C25_Step ==
    /\ (pc = "select" /\ pc' # "select") =>
          LET move == _get_move_signature(solver.current_solution.assignment,
                                          solver'.current_solution.assignment)
          IN  solver'.tabu_list
                 = deque_last(deque_append(solver.tabu_list, solver.maxlen, move),
                              solver'.current_tenure)
    /\ (pc \in {"solve", "wrapup"}) => solver'.tabu_list = solver.tabu_list

\* C25: every step of solve treats the queue as said
C25_QueueRecordsAccepted == [][C25_Step]_vars

(***************************************************************************)
(* SpecRange: the loop of solve, as in SpecTabu, constructed with a        *)
(* tabu_tenure below, within and above [min_tenure, max_tenure] = [2, 4].  *)
(***************************************************************************)
RangeArgs ==
    { [ max_iter |-> MaxIter, tabu_tenure |-> n, min_tenure |-> 2, max_tenure |-> 4,
        increase_threshold |-> 2, decrease_threshold |-> 2 ] : n \in {1, 3, 6} }

InitRange ==
    /\ inp \in TabuInputs
    /\ par \in RangeArgs
    /\ req = NoRequest
    /\ pc = "new"
    /\ pruning_cutoff = Inf
    /\ ev = NoEval
    /\ sol = NoSolution
    /\ solver = NoSolver
    /\ iter = 0
    /\ neighbors = <<>>
    /\ sel = NoSelection
    /\ raised = ""
    /\ returned = NoSolution
    /\ caller = NoCaller

SpecRange == InitRange /\ [][NextTabu]_vars

(***************************************************************************)
(* C28.  Whatever tabu_tenure the solver is constructed with, and whatever *)
(* min_tenure <= max_tenure, at every point of the run min_tenure <=       *)
(* current_tenure <= max_tenure and the queue holds at most current_tenure *)
(* entries.  __init__ takes tabu_tenure as it is, so a tenure outside the  *)
(* range stays outside until the adaptation moves it.                      *)
(***************************************************************************)
C28_TenureInRange ==
    Constructed =>
       /\ solver.min_tenure <= solver.current_tenure
       /\ solver.current_tenure <= solver.max_tenure
       /\ Len(solver.tabu_list) <= solver.current_tenure

(***************************************************************************)
(* SpecSound: as SpecPrune, and after an evaluation that was abandoned the *)
(* caller lifts the ceiling and has the same assignment evaluated again.   *)
(***************************************************************************)
Unceilinged ==
    /\ pc = "done"
    /\ CeilingSet
    /\ caller.calls = 0
    /\ sol.total_cost = Inf
    /\ pruning_cutoff' = set_pruning_best(Inf)
    /\ caller' = [caller EXCEPT !.calls = 1]
    /\ pc' = "idle"
    /\ UNCHANGED <<inp, req, ev, sol>>
    /\ UNCHANGED tabu_vars

NextSound ==
    \/ SetPruningBest
    \/ Call
    \/ Day
    \/ Prune
    \/ Return
    \/ Unceilinged

SpecSound == InitPrune /\ [][NextSound]_vars

(***************************************************************************)
(* C27.  Pruning is sound.  When an evaluation under the ceiling set by    *)
(* set_pruning_best(b), b of either sign, was abandoned with +inf, the     *)
(* same assignment evaluated with no ceiling has a total_cost of at least  *)
(* b.  In the code the partial cost that is compared is not a lower bound  *)
(* of the final one (the experience reward of the later days is yet to be  *)
(* subtracted), and for b < 0 the cutoff 1.2 * b is below b itself.        *)
(***************************************************************************)
C27_PruningSound ==
    (pc = "done" /\ caller.calls = 1) => sol.total_cost >= caller.ceiling

(***************************************************************************)
(* SpecFrame: the loop of solve, as in SpecTabu, with the objects of a     *)
(* call of generate_neighbors kept by the caller: objs are the assignment  *)
(* dicts, dicts the solution dicts, each holding the reference aref of its *)
(* assignment dict and its other fields.  Object 1 of both is the base     *)
(* solution's.                                                             *)
(***************************************************************************)
\* new_assign = base_assign: the same object under another name
copy_alias(objs, ref) == [objs |-> objs, ref |-> ref]

\* new_assign = copy.copy(base_assign) (lines 52, 127, 155, 171): a new dict
\* with the items of the old one
copy_copy(objs, ref) == [objs |-> Append(objs, objs[ref]), ref |-> Len(objs) + 1]

\* the heap when generate_neighbors is entered
BaseHeap(base_solution) ==
    [ objs  |-> <<base_solution.assignment>>,
      dicts |-> << [aref |-> 1, fields |-> base_solution] >>,
      refs  |-> <<>> ]

\* the solution dict i as a value
Deref(h, i) == [h.dicts[i].fields EXCEPT !.assignment = h.objs[h.dicts[i].aref]]

\* One neighbour after the other (lines 52-87, 127-130, 155-157, 171-173):
\* the copy of the base assignment, the move written into the copy, the dict
\* literal {'assignment': new_assign} handed to the evaluator, which writes
\* the realised cells into new_assign (lines 156, 272, 302) and the derived
\* fields into the dict; q is the list of the Solutions so obtained.
RECURSIVE Emit(_, _)
Emit(h, q) ==
    IF q = <<>> THEN h
    ELSE LET c == copy_copy(h.objs, h.dicts[1].aref)
             objs1 == [j \in DOMAIN c.objs |->
                          IF j = c.ref THEN Head(q).assignment ELSE c.objs[j]]
         IN  Emit([ objs  |-> objs1,
                    dicts |-> Append(h.dicts, [aref |-> c.ref, fields |-> Head(q)]),
                    refs  |-> Append(h.refs, Len(h.dicts) + 1) ],
                  Tail(q))

\* 1. Generate Neighbors and the sort of line 70, as Generate, the caller
\* keeping the base solution as it was before the call and the objects after
GenerateObjects ==
    /\ pc = "solve"
    /\ iter < solver.max_iter
    /\ \E q \in generate_neighbors(solver.current_solution) :
          /\ q # <<>>
          /\ neighbors' = SortedByCost(q)
          /\ caller' = [ calls |-> 1,
                         base  |-> solver.current_solution,
                         heap  |-> Emit(BaseHeap(solver.current_solution), q) ]
    /\ pc' = "select"
    /\ UNCHANGED <<inp, req, pruning_cutoff, ev, sol, par, solver, iter, sel, raised, returned>>

NextFrame ==
    \/ Construct
    \/ LoopExit
    \/ TimeLimit
    \/ GenerateObjects
    \/ NoNeighbors
    \/ Select
    \/ WrapUp

\* the data of SpecTabu, and data in which the fabric of style 1 comes on
\* day 2 only, so that style 1 cannot be started on day 1
FrameInputs ==
    TabuInputs
    \cup { [d EXCEPT !.I0fabric = [s \in Styles |-> IF s = 1 THEN 0 ELSE d.I0fabric[s]],
                     !.F = [k \in Styles \X DaysOf(2) |-> IF k = <<1, 2>> THEN 9 ELSE 0]] :
           d \in {i \in TabuInputs : i.y0[1] = 0 /\ i.I0product[0] = 9} }

\* two iterations: the second starts from a neighbour of the initial solution
FrameArgs ==
    { [ max_iter |-> m, tabu_tenure |-> 2, min_tenure |-> 1, max_tenure |-> 4,
        increase_threshold |-> 2, decrease_threshold |-> 2 ] : m \in {0, 2} }

InitFrame ==
    /\ inp \in FrameInputs
    /\ par \in FrameArgs
    /\ req = NoRequest
    /\ pc = "new"
    /\ pruning_cutoff = Inf
    /\ ev = NoEval
    /\ sol = NoSolution
    /\ solver = NoSolver
    /\ iter = 0
    /\ neighbors = <<>>
    /\ sel = NoSelection
    /\ raised = ""
    /\ returned = NoSolution
    /\ caller = NoCaller

SpecFrame == InitFrame /\ [][NextFrame]_vars

(***************************************************************************)
(* C21.  generate_neighbors does not touch the base solution: after the    *)
(* call the base solution's dict has the assignment and the derived fields *)
(* it had before, the evaluator's in-place rewrites of the neighbours      *)
(* notwithstanding, and no neighbour returned shares its dict or its       *)
(* assignment dict with the base solution.                                 *)
(***************************************************************************)
C21_BaseUntouched ==
    pc = "select" =>
       /\ Deref(caller.heap, 1) = caller.base
       /\ caller.base = solver.current_solution
       /\ \A j \in DOMAIN caller.heap.refs :
             /\ caller.heap.refs[j] # 1
             /\ caller.heap.dicts[caller.heap.refs[j]].aref # caller.heap.dicts[1].aref
       /\ \E p \in Orders(DOMAIN neighbors) :
             \A j \in DOMAIN neighbors :
                neighbors[j] = Deref(caller.heap, caller.heap.refs[p[j]])

\* a batch of two neighbours, one of them a multi-objective move in which
\* the evaluator has written the base solution's cells back over the move
C21_Witness ==
    /\ pc = "select"
    /\ Len(neighbors) = 2
    /\ \E j \in DOMAIN neighbors :
          /\ "type" \in neighbors[j].keys
          /\ neighbors[j].assignment = caller.base.assignment
    /\ Len(caller.heap.objs) = 3

(***************************************************************************)
(* C31.  The tenure changes at threshold crossings only.  It is raised by  *)
(* 2, not above max_tenure, at the iteration that completes                *)
(* increase_threshold consecutive iterations without a new best, and the   *)
(* count of those restarts from 0; it is lowered by 1, not below           *)
(* min_tenure, at the iteration that completes decrease_threshold          *)
(* consecutive iterations with a new best, and that count restarts from 0; *)
(* every other iteration, one with an empty batch included, leaves it as   *)
(* it is; and one of the two counts is 0 at any time.  The code does not   *)
(* count an iteration whose batch is empty, so a run of iterations without *)
(* a new best that holds one raises the tenure late or not at all.         *)
(***************************************************************************)
\* as long as no iteration has found a new best, the tenure has been raised
\* once for every increase_threshold iterations done
C31_RaisedOnTime ==
    (pc = "solve" /\ NeverImproved) =>
       solver.current_tenure
          = Min(solver.max_tenure,
                par.tabu_tenure + 2 * (iter \div solver.increase_threshold))

C31_OneCounter ==
    Constructed =>
       \/ solver.no_improvement_counter = 0
       \/ solver.consecutive_improvements_counter = 0

\* an iteration with a batch: the counts and the tenure after it
C31_Iteration ==
    (pc = "select" /\ pc' = "solve") =>
       LET new_best == solver'.best_cost < solver.best_cost
           worse == solver.no_improvement_counter + 1
           better == solver.consecutive_improvements_counter + 1
       IN  IF new_best
           THEN /\ solver'.no_improvement_counter = 0
                /\ IF better >= solver.decrease_threshold
                   THEN /\ solver'.current_tenure
                              = Max(solver.min_tenure, solver.current_tenure - 1)
                        /\ solver'.consecutive_improvements_counter = 0
                   ELSE /\ solver'.current_tenure = solver.current_tenure
                        /\ solver'.consecutive_improvements_counter = better
           ELSE /\ solver'.consecutive_improvements_counter = 0
                /\ IF worse >= solver.increase_threshold
                   THEN /\ solver'.current_tenure
                              = Min(solver.max_tenure, solver.current_tenure + 2)
                        /\ solver'.no_improvement_counter = 0
                   ELSE /\ solver'.current_tenure = solver.current_tenure
                        /\ solver'.no_improvement_counter = worse

\* C31: the tenure follows the two counts of consecutive iterations
C31_TenureAtThresholds == []C31_RaisedOnTime /\ []C31_OneCounter /\ [][C31_Iteration]_vars

(***************************************************************************)
(* C32.  A line never moves onto a style that has no fabric.  For every    *)
(* changeover (l, s_from, s_to, t) of a returned Solution, the first       *)
(* assignment of a line that has no initial style included, the fabric of  *)
(* s_to after the receipts of day t is positive.  The material logic of    *)
(* the code applies to a line that has a current style only: a line with   *)
(* none takes the style it is asked for, with or without fabric.           *)
(***************************************************************************)
C32_NoMoveWithoutFabric ==
    pc = "done" => \A c \in sol.changes : sol.fab_before[c[4]][c[3]] > 0

(***************************************************************************)
(* C33.  The changes of a returned Solution agree with its realised        *)
(* assignment.  (l, a, b, t) is in changes exactly when the realised style *)
(* b of slot (l, t) differs from the style a the line held the day before, *)
(* which is the realised style of (l, t - 1), or the line's initial style  *)
(* on the first day; a slot has at most one event; and on a day with no    *)
(* event the line holds the style of the day before.                       *)
(***************************************************************************)
HeldBefore(solution, l, t) ==
    IF t = 1 THEN _get_initial_style_id(l) ELSE solution.assignment[<<l, t - 1>>]

C33_ChangesAgree ==
    pc = "done" =>
       \A l \in Lines : \A t \in Days :
          ChangesOn(sol, l, t)
             = IF sol.assignment[<<l, t>>] # HeldBefore(sol, l, t)
               THEN { <<l, HeldBefore(sol, l, t), sol.assignment[<<l, t>>], t>> }
               ELSE {}

\* a first assignment of a line with no initial style, a changeover from a
\* style on day 2, a slot with no event, and a cell the evaluator has
\* rewritten
C33_Witness ==
    /\ pc = "done"
    /\ \E c \in sol.changes : c[2] = None /\ c[4] = 1
    /\ \E c \in sol.changes : c[2] # None /\ c[4] = 2
    /\ \E l \in Lines : \E t \in Days : ChangesOn(sol, l, t) = {}
    /\ \E k \in Cells : req[k] # None /\ _is_allowed(k[1], req[k]) /\ sol.assignment[k] # req[k]

(***************************************************************************)
(* C34.  Shipments and backlog.  On every day and for every style the      *)
(* shipment is the smaller of the finished goods in stock after the day's  *)
(* finished receipts and of the backlog of the day before plus the day's   *)
(* demand; the new backlog is that backlog plus the demand minus the       *)
(* shipment; after the step the backlog and the stock of finished goods    *)
(* are not negative and not both positive; and final_backlog of a style is *)
(* its initial backlog plus its demand minus its shipments.                *)
(***************************************************************************)
C34_Day ==
    DayStep =>
       LET t == ev.ti
       IN  \A s \in Styles :
              LET stock == ev.inv_prod[s] + finished(ev', s, t)
                  needed == ev.backlog[s] + inp.D[<<s, t>>]
                  shipment == ev'.s.shipment[t][s]
              IN  /\ shipment = Min(stock, needed)
                  /\ ev'.backlog[s] = needed - shipment
                  /\ ev'.inv_prod[s] = stock - shipment
                  /\ ev'.backlog[s] >= 0
                  /\ ev'.inv_prod[s] >= 0
                  /\ ~(ev'.backlog[s] > 0 /\ ev'.inv_prod[s] > 0)

C34_Final ==
    pc = "done" =>
       \A s \in Styles :
          /\ id_to_style[s] \in DOMAIN sol.final_backlog
          /\ sol.final_backlog[id_to_style[s]] = BacklogAt(inp, sol, s, Len(setT))

\* C34: every day ships and carries the backlog as said, and final_backlog is
\* what the days leave
C34_ShipmentAndBacklog == [][C34_Day]_vars /\ []C34_Final

\* the last day has left a style with a shipment and a backlog, a style
\* with finished goods in stock, and a style shipped from goods finished on
\* that day
C34_Witness ==
    /\ pc = "loop"
    /\ ev.ti = Len(setT) + 1
    /\ \E s \in Styles : ev.backlog[s] > 0 /\ ev.s.shipment[Len(setT)][s] > 0
    /\ \E s \in Styles : ev.inv_prod[s] > 0 /\ ev.backlog[s] = 0
    /\ \E s \in Styles : finished(ev, s, Len(setT)) > 0 /\ ev.s.shipment[Len(setT)][s] > 0

(***************************************************************************)
(* C35.  total_late of a returned Solution is the sum, over the days t and *)
(* the styles s that end day t with a backlog, of backlog * Plate[s] *     *)
(* discount(t), so a style that ends every day without a backlog adds      *)
(* nothing; and an evaluation on data with no fabric at all completes,     *)
(* with a production of zero on every line and day and with all the demand *)
(* that the initial stock of finished goods does not cover in backlog.     *)
(***************************************************************************)
\* no fabric in stock and none received within the horizon
NoFabric ==
    \A s \in Styles :
       /\ inp.I0fabric[s] = 0
       /\ \A t \in Days : param_F(s, t - inp.Tfab[s]) = 0

\* the demand of s up to day t that the initial stock does not cover
Unserved(s, t) ==
    Max(0, inp.B0[s] + SumSeq([u \in 1..t |-> inp.D[<<s, u>>]]) - inp.I0product[s])

C35_LateCostIsBacklogSum ==
    /\ raised = ""
    /\ pc = "done" =>
          /\ sol.total_late
                = SumSeq([j \in 1..(Len(setT) * Len(all_style_ids)) |->
                            LET t == setT[((j - 1) \div Len(all_style_ids)) + 1]
                                s == all_style_ids[((j - 1) % Len(all_style_ids)) + 1]
                            IN  BacklogAt(inp, sol, s, t) * Plate[s] * (CostScale \div Pow2(t))])
          /\ NoFabric =>
                /\ \A t \in Days : \A l \in Lines : sol.production[t][l].num = 0
                /\ \A t \in Days : \A s \in Styles : BacklogAt(inp, sol, s, t) = Unserved(s, t)

\* an evaluation with no fabric: a style with a backlog on day 1 that grows
\* by more than one piece on day 2, and a style with none on any day
C35_Witness ==
    /\ pc = "done"
    /\ NoFabric
    /\ sol.total_late > 0
    /\ \E s \in Styles :
          /\ BacklogAt(inp, sol, s, 1) > 0
          /\ BacklogAt(inp, sol, s, 2) > BacklogAt(inp, sol, s, 1) + 1
    /\ \E s \in Styles : \A t \in Days : BacklogAt(inp, sol, s, t) = 0

(***************************************************************************)
(* SpecSignature: _get_move_signature on two pairs of assignments over the *)
(* same slots.  req is old_assign; the caller keeps the two new            *)
(* assignments, the order in which the dict old_assign lists its slots,    *)
(* and the two signatures.                                                 *)
(***************************************************************************)
\* the list as it is
unsorted(q) == q

\* tuples of a slot and two styles compare by the slot, which no two of a
\* signature share: (l, t) < (l', t') is l < l', or l = l' and t < t'
SlotLess(a, b) == a[1] < b[1] \/ (a[1] = b[1] /\ a[2] < b[2])

RECURSIVE InsertBySlot(_, _)
InsertBySlot(q, x) ==
    IF q = <<>> THEN <<x>>
    ELSE IF SlotLess(x[1], Head(q)[1]) THEN <<x>> \o q
    ELSE <<Head(q)>> \o InsertBySlot(Tail(q), x)

RECURSIVE SortBySlot(_)
SortBySlot(q) ==
    IF q = <<>> THEN <<>>
    ELSE InsertBySlot(SortBySlot(SubSeq(q, 1, Len(q) - 1)), q[Len(q)])

\* sorted(...) of line 136
sorted(q) == SortBySlot(q)

\* lines 135-139, old_assign listing its slots in the order `keys`
signature_in_order(keys, old_assign, new_assign) ==
    sorted(SelectSeq([j \in DOMAIN keys |-> <<keys[j], old_assign[keys[j]], new_assign[keys[j]]>>],
                     LAMBDA x : x[2] # x[3]))

SignatureAssignments == [Cells -> {0, 1}]

InitSignature ==
    /\ inp \in {d \in TabuInputs : d.y0[1] = 0 /\ d.I0fabric[2] = 9 /\ d.I0product[0] = 9}
    /\ req \in SignatureAssignments
    /\ pc = "idle"
    /\ pruning_cutoff = Inf
    /\ ev = NoEval
    /\ sol = NoSolution
    /\ par = NoSolver
    /\ solver = NoSolver
    /\ iter = 0
    /\ neighbors = <<>>
    /\ sel = NoSelection
    /\ raised = ""
    /\ returned = NoSolution
    /\ caller = NoCaller

GetMoveSignature ==
    /\ pc = "idle"
    /\ \E new_assign, other \in SignatureAssignments : \E keys \in Orders(Cells) :
          caller' = [ calls |-> 1,
                      new   |-> new_assign,
                      other |-> other,
                      keys  |-> keys,
                      signature |-> signature_in_order(keys, req, new_assign),
                      signature_other |-> signature_in_order(keys, req, other) ]
    /\ pc' = "signed"
    /\ UNCHANGED <<inp, req, pruning_cutoff, ev, sol>>
    /\ UNCHANGED tabu_vars

NextSignature == GetMoveSignature

SpecSignature == InitSignature /\ [][NextSignature]_vars

(***************************************************************************)
(* C36.  The move signature identifies the transition.  For assignments    *)
(* over the same slots, signature(A, A') is empty exactly when A' = A;     *)
(* signature(A, A') = signature(A, A'') exactly when A' = A''; it holds    *)
(* one triple (slot, A[slot], A'[slot]) for each slot on which A and A'    *)
(* differ and nothing else; and it is the same in whatever order the slots *)
(* are listed.                                                             *)
(***************************************************************************)
Differing(A, B) == {k \in Cells : A[k] # B[k]}

C36_SignatureIdentifiesMove ==
    pc = "signed" =>
       LET A == req
           B == caller.new
           C == caller.other
           sig == caller.signature
       IN  /\ (sig = <<>>) <=> (B = A)
           /\ (sig = caller.signature_other) <=> (B = C)
           /\ Len(sig) = Cardinality(Differing(A, B))
           /\ \A k \in Differing(A, B) : \E j \in DOMAIN sig : sig[j] = <<k, A[k], B[k]>>
           /\ \A j \in DOMAIN sig : sig[j][1] \in Differing(A, B)
           /\ sig = signature_in_order(CellsInOrder, A, B)
           /\ sig = _get_move_signature(A, B)

\* two different moves from one assignment, of two slots and more, the
\* slots being listed last to first
C36_Witness ==
    /\ pc = "signed"
    /\ caller.keys = [j \in DOMAIN CellsInOrder |-> CellsInOrder[Len(CellsInOrder) + 1 - j]]
    /\ Len(caller.signature) >= 2
    /\ Len(caller.signature_other) >= 2
    /\ caller.signature # caller.signature_other

(***************************************************************************)
(* C37.  The late-cost reduction operator acts on the styles in backlog:   *)
(* whenever the base solution has a style with positive final backlog and  *)
(* a slot (l, t) where the line may make that style and does not hold it,  *)
(* _gen_late_reduction has at least one candidate.                         *)
(***************************************************************************)
Backlogged(solution) ==
    {s \in Styles : solution.final_backlog[id_to_style[s]] > 0}

OpenSlots(solution, s) ==
    {k \in Cells : _is_allowed(k[1], s) /\ solution.assignment[k] # s}

C37_LateReductionActs ==
    pc = "select" =>
       LET base_solution == solver.current_solution
       IN  (\E s \in Backlogged(base_solution) : OpenSlots(base_solution, s) # {})
              => LateMoves(base_solution) # {}

(***************************************************************************)
(* C38.  Within a day the decisions of the lines do not depend on the      *)
(* order in which the lines are processed: a day evaluated with the lines  *)
(* listed in any other order, the shuffles of the lines being the same,    *)
(* leaves the same assignment, changeovers, experience, efficiency,        *)
(* production, inventories, backlog and costs; only the order of the       *)
(* entries in pot_prod differs.                                            *)
(***************************************************************************)
DayInOrder(e, lines, t, firsts) ==
    Only({ [e4 EXCEPT !.ti = t + 1] :
           e4 \in { Shipments(e3, t) :
           e3 \in { RealiseProduction(e2, t) :
           e2 \in { DecideProduction(e1, lines, t, firsts) :
           e1 \in { FabricReceipts(e, t) } } } } })

SameButOrder(e1, e2) ==
    /\ [e1 EXCEPT !.pot_prod = e2.pot_prod] = e2
    /\ \A s \in Styles : /\ Range(e1.pot_prod[s]) = Range(e2.pot_prod[s])
                         /\ Len(e1.pot_prod[s]) = Len(e2.pot_prod[s])

C38_Day ==
    (DayStep /\ ev'.ti = ev.ti + 1) =>
       \A firsts \in ShuffleDraws(ev, ev.ti) : \A lines \in Orders(Lines) \ {setL} :
          \/ SameButOrder(DayInOrder(ev, lines, ev.ti, firsts), ev')
          \/ ev' # TimeStep(ev, ev.ti, firsts)

C38_LineOrderIrrelevant == [][C38_Day]_vars

\* a day on which both lines make the same style with less fabric than they
\* can sew, one of them having been sent to it or kept on it by the material
\* logic, and a changeover is recorded
C38_Witness ==
    /\ pc = "loop"
    /\ ev.ti > 1
    /\ LET t == ev.ti - 1
       IN  /\ \E s \in Styles : /\ Len(ev.pot_prod[s]) = 2
                                /\ ev.inv_fab[s] = 0
                                /\ total_cap(ev.pot_prod[s]) > ev.daily_prod_history[t][s]
           /\ \E l \in Lines : ev.s.assignment[<<l, t>>] # req[<<l, t>>]
           /\ \E c \in ev.s.changes : c[4] = t

\* the evaluator on the data in which both lines can be put on a style
\* that has fabric for less than the two can sew
OrderInputs == {d \in Inputs : d.I0fabric[0] = 3 /\ d.I0fabric[1] = 3}

InitOrder ==
    /\ inp \in OrderInputs
    /\ req \in Requests
    /\ pc = "idle"
    /\ pruning_cutoff = Inf
    /\ ev = NoEval
    /\ sol = NoSolution
    /\ par = NoSolver
    /\ solver = NoSolver
    /\ iter = 0
    /\ neighbors = <<>>
    /\ sel = NoSelection
    /\ raised = ""
    /\ returned = NoSolution
    /\ caller = NoCaller

SpecOrder == InitOrder /\ [][Next]_vars

(***************************************************************************)
(* export_solution_to_excel (utils/excel_exporter.py), the style sheets    *)
(* (lines 133-169).  main.py hands it the Solution solve() returned and    *)
(* the input data.  all_styles are the style NAMES of setS; the input      *)
(* parameters are keyed by name, which inp holds under the style's id.     *)
(***************************************************************************)
Metrics == { "Demand", "Fabric Receiving", "Beg. Inv Fabric", "Producing",
             "End. Inv Fabric", "Beg. Inv FG", "Shipping", "End. Inv FG", "Backlog" }

\* line 150: sum(solution['production'].get((l, style, t), 0) for l in lines)
prod_t(solution, style, t) ==
    LET total == FracSum([i \in 1..Len(setL) |-> ProducedBy(solution, setL[i], style, t)])
    IN  total.num \div total.den

\* lines 138-145
NewSheet(style) ==
    [ inv_fab  |-> inp.I0fabric[style_to_id[style]],
      inv_fg   |-> inp.I0product[style_to_id[style]],
      backlog  |-> inp.B0[style_to_id[style]],
      data_map |-> [m \in Metrics |-> <<>>] ]

\* one pass of the loop over dates (lines 147-169)
SheetDay(sheet, solution, style, t) ==
    LET demand_t == inp.D[<<style_to_id[style], t>>]
        fab_recv_t == param_F(style_to_id[style], t)
        produced == prod_t(solution, style, t)
        inv_fab == sheet.inv_fab + fab_recv_t - produced
        total_available == sheet.inv_fg + produced
        total_needed == demand_t + sheet.backlog
        ship_t == Min(total_available, total_needed)
        inv_fg == total_available - ship_t
        backlog == total_needed - ship_t
        entry == [m \in Metrics |->
                    CASE m = "Demand" -> demand_t
                      [] m = "Fabric Receiving" -> fab_recv_t
                      [] m = "Beg. Inv Fabric" -> sheet.inv_fab
                      [] m = "Producing" -> produced
                      [] m = "End. Inv Fabric" -> inv_fab
                      [] m = "Beg. Inv FG" -> sheet.inv_fg
                      [] m = "Shipping" -> ship_t
                      [] m = "End. Inv FG" -> inv_fg
                      [] m = "Backlog" -> backlog]
    IN  [ inv_fab  |-> inv_fab,
          inv_fg   |-> inv_fg,
          backlog  |-> backlog,
          data_map |-> [m \in Metrics |-> Append(sheet.data_map[m], entry[m])] ]

RECURSIVE SheetUpTo(_, _, _)
SheetUpTo(solution, style, n) ==
    IF n = 0 THEN NewSheet(style)
    ELSE Only({ SheetDay(sheet, solution, style, setT[n]) :
                sheet \in { SheetUpTo(solution, style, n - 1) } })

StyleSheet(solution, style) == SheetUpTo(solution, style, Len(setT)).data_map

\* main.py lines 202-218: the report of the Solution solve() returned
Export ==
    /\ pc = "returned"
    /\ caller' = [calls |-> 1, sheets |-> [style \in StyleNames |-> StyleSheet(returned, style)]]
    /\ pc' = "exported"
    /\ UNCHANGED <<inp, req, pruning_cutoff, ev, sol>>
    /\ UNCHANGED tabu_vars

\* the data of the search with fabric and finishing lead times of 0 days and
\* of 1 day
ReportInputs ==
    { [d EXCEPT !.Tfab = [s \in Styles |-> lt[1]], !.Tprod = [s \in Styles |-> lt[2]],
                !.F = [k \in Styles \X DaysOf(2) |-> IF k = <<2, 1>> THEN 3 ELSE 0]] :
      d \in TabuInputs, lt \in {<<0, 0>>, <<1, 0>>, <<0, 1>>} }

InitReport ==
    /\ inp \in ReportInputs
    /\ par \in FrameArgs
    /\ req = NoRequest
    /\ pc = "new"
    /\ pruning_cutoff = Inf
    /\ ev = NoEval
    /\ sol = NoSolution
    /\ solver = NoSolver
    /\ iter = 0
    /\ neighbors = <<>>
    /\ sel = NoSelection
    /\ raised = ""
    /\ returned = NoSolution
    /\ caller = NoCaller

NextReport ==
    \/ NextTabu
    \/ Export

SpecReport == InitReport /\ [][NextReport]_vars

(***************************************************************************)
(* C39.  The ledger of a style in the report agrees with the evaluator:    *)
(* on every day its production is the sum over the lines of the            *)
(* Solution's production, its shipment is the Solution's shipment, its     *)
(* fabric and finished-goods inventories are the evaluator's, and its      *)
(* backlog of the last day is final_backlog, whatever the lead times.      *)
(***************************************************************************)
C39_LedgerAgrees ==
    pc = "exported" =>
       \A s \in Styles :
          LET sheet == caller.sheets[id_to_style[s]]
          IN  /\ \A t \in Days :
                    /\ FracEqInt(Produced(returned, s, t), sheet["Producing"][t])
                    /\ sheet["Shipping"][t] = returned.shipment[t][s]
                    /\ FracEqInt(ProducedUpTo(returned, s, t),
                                 inp.I0fabric[s] + ReceivedUpTo(s, t) - sheet["End. Inv Fabric"][t])
                    /\ FracEqInt(ProducedUpTo(returned, s, t - inp.Tprod[s]),
                                 sheet["End. Inv FG"][t] - inp.I0product[s]
                                    + ShippedUpTo(returned, s, t))
              /\ sheet["Backlog"][Len(setT)] = returned.final_backlog[id_to_style[s]]

==========================================================================
